---------------------------- MODULE Spec2Model ----------------------------
(***************************************************************************)
(* The model-discovery and text-extraction core of the vision text         *)
(* extractor: the extractTextFromImage flow (lib/genkit/flows.ts, in its   *)
(* axios form and in its genkit form), its output-format transform, and    *)
(* the status check of lib/ollama.ts with its vision classification, the   *)
(* model catalog (getModelDisplayInfo of lib/genkit/config.ts) and the     *)
(* model list built from both (getAvailableModels); around them the        *)
(* extraction endpoint (app/api/extract-text) with its HTTP statuses, the  *)
(* page (app/page.tsx) with its image inputs and results panel, and        *)
(* several calls of the flow in flight at once.                            *)
(*                                                                         *)
(* A JavaScript string is a sequence of one-character strings, so that     *)
(* split, trim, toLowerCase, the regular expressions and JSON.stringify    *)
(* are computed character by character.  The base64 image is kept by the   *)
(* number of its base64 digits: only its decoded length is ever read.      *)
(***************************************************************************)
EXTENDS Integers, Sequences, FiniteSets, TLC

VARIABLES
    pc,             \* position of the extract call
    variant,        \* which definition of the flow runs: "axios" or "genkit"
    input,          \* the flow's input: imageBase64, model, outputFormat
    startTime,      \* const startTime = Date.now()
    now,            \* the wall clock, Date.now()
    chunks,         \* what sendChunk delivered to the listener, in order
    requests,       \* generation requests issued to the inference server
    served,         \* how the server answered the generation request
    extractedText,  \* const extractedText = response...
    processingTime, \* const processingTime = Date.now() - startTime
    result,         \* the value the flow returned
    spc,            \* position of the checkOllamaStatus call
    tagsResponse,   \* how the server answered GET /api/tags
    listRequests,   \* list requests issued by the current check
    status,         \* the OllamaStatus the check returned
    checksDone,     \* checks completed so far
    dpc,            \* position of the getModelDisplayInfo call
    displayId,      \* its argument, modelId
    displayInfo,    \* the info it returned
    lpc,            \* position of the getAvailableModels call
    listResult,     \* the value getAvailableModels returned
    calls,          \* the calls of the flow in flight at once, by request
    http,           \* the extraction endpoint: request, position and HTTP status
    page            \* the state of the page and of its image inputs

vars == <<pc, variant, input, startTime, now, chunks, requests, served,
          extractedText, processingTime, result, spc, tagsResponse, listRequests, status,
          checksDone, dpc, displayId, displayInfo, lpc, listResult, calls, http, page>>

extractVars == <<pc, variant, input, startTime, now, chunks, requests,
                 served, extractedText, processingTime, result>>

statusVars == <<spc, tagsResponse, listRequests, status, checksDone>>

displayVars == <<dpc, displayId, displayInfo>>

listVars == <<lpc, listResult>>

appVars == <<calls, http, page>>

---------------------------------------------------------------------------
(* Bounds of the model. *)

MaxTextLen == 3

SizeSlack == 1

MaxClock == 1

MaxModels == 2

MaxChecks == 2

MaxCalls == 2

MaxInFlight == 2

---------------------------------------------------------------------------
(* JavaScript strings. *)

UpperChars ==
    <<"A", "B", "C", "D", "E", "F", "G", "H", "I", "J", "K", "L", "M",
      "N", "O", "P", "Q", "R", "S", "T", "U", "V", "W", "X", "Y", "Z">>

LowerChars ==
    <<"a", "b", "c", "d", "e", "f", "g", "h", "i", "j", "k", "l", "m",
      "n", "o", "p", "q", "r", "s", "t", "u", "v", "w", "x", "y", "z">>

IndexOf(c, chars) ==
    IF \E i \in DOMAIN chars : chars[i] = c
    THEN CHOOSE i \in DOMAIN chars : chars[i] = c
    ELSE 0

\* The lower-case letter of each upper-case letter.
LowerOf == [c \in {UpperChars[i] : i \in DOMAIN UpperChars} |-> LowerChars[IndexOf(c, UpperChars)]]

toLowerChar(c) == IF c \in DOMAIN LowerOf THEN LowerOf[c] ELSE c

toLowerCase(s) == [i \in 1..Len(s) |-> toLowerChar(s[i])]

\* The value undefined, where a string was expected.
Undefined == <<"<undefined>">>

IsString(v) == v # Undefined

\* String(v), as a template literal converts its value.
ToStr(v) ==
    IF v = Undefined THEN <<"u", "n", "d", "e", "f", "i", "n", "e", "d">> ELSE v

\* White space of \s and of trim().
IsSpace(c) == c \in {" ", "\n", "\t", "\r"}

RECURSIVE trimStart(_)
trimStart(s) ==
    IF s # <<>> /\ IsSpace(Head(s)) THEN trimStart(Tail(s)) ELSE s

RECURSIVE trimEnd(_)
trimEnd(s) ==
    IF s # <<>> /\ IsSpace(s[Len(s)])
    THEN trimEnd(SubSeq(s, 1, Len(s) - 1))
    ELSE s

trim(s) == trimEnd(trimStart(s))

\* s.split(sep) for a one-character separator: the pieces between separators.
RECURSIVE splitFrom(_, _, _)
splitFrom(s, sep, piece) ==
    IF s = <<>> THEN <<piece>>
    ELSE IF Head(s) = sep THEN <<piece>> \o splitFrom(Tail(s), sep, <<>>)
    ELSE splitFrom(Tail(s), sep, Append(piece, Head(s)))

split(s, sep) == splitFrom(s, sep, <<>>)

\* s.split(/\s+/): the pieces between maximal runs of white space.
RECURSIVE splitSpacesFrom(_, _)
splitSpacesFrom(s, piece) ==
    IF s = <<>> THEN <<piece>>
    ELSE IF IsSpace(Head(s))
         THEN <<piece>> \o splitSpacesFrom(trimStart(s), <<>>)
         ELSE splitSpacesFrom(Tail(s), Append(piece, Head(s)))

splitSpaces(s) == splitSpacesFrom(s, <<>>)

\* A JavaScript string is truthy when it is not empty.
Truthy(s) == s # <<>>

Digits == <<"0", "1", "2", "3", "4", "5", "6", "7", "8", "9">>

\* String(n) of a non-negative integer.
RECURSIVE NumToStr(_)
NumToStr(n) ==
    IF n < 10 THEN <<Digits[n + 1]>>
    ELSE NumToStr(n \div 10) \o <<Digits[(n % 10) + 1]>>

RECURSIVE Join(_, _)
Join(parts, sep) ==
    IF parts = <<>> THEN <<>>
    ELSE IF Len(parts) = 1 THEN parts[1]
    ELSE parts[1] \o sep \o Join(Tail(parts), sep)

---------------------------------------------------------------------------
(* JSON.stringify(value, null, 2) of { text, lines, wordCount }. *)

JsonEscapeChar(c) ==
    IF c = "\n" THEN <<"\\", "n">>
    ELSE IF c = "\t" THEN <<"\\", "t">>
    ELSE IF c = "\r" THEN <<"\\", "r">>
    ELSE IF c = "\"" THEN <<"\\", "\"">>
    ELSE IF c = "\\" THEN <<"\\", "\\">>
    ELSE <<c>>

RECURSIVE JsonEscape(_)
JsonEscape(s) ==
    IF s = <<>> THEN <<>> ELSE JsonEscapeChar(Head(s)) \o JsonEscape(Tail(s))

JsonQuote(s) == <<"\"">> \o JsonEscape(s) \o <<"\"">>

JsonArray(items) ==
    IF items = <<>> THEN <<"[", "]">>
    ELSE <<"[", "\n">>
         \o Join([i \in 1..Len(items) |->
                    <<" ", " ", " ", " ">> \o JsonQuote(items[i])],
                 <<",", "\n">>)
         \o <<"\n", " ", " ", "]">>

JSONStringify(obj) ==
    <<"{", "\n", " ", " ", "\"", "t", "e", "x", "t", "\"", ":", " ">>
    \o JsonQuote(obj.text)
    \o <<",", "\n", " ", " ", "\"", "l", "i", "n", "e", "s", "\"", ":", " ">>
    \o JsonArray(obj.lines)
    \o <<",", "\n", " ", " ", "\"", "w", "o", "r", "d", "C", "o", "u", "n",
         "t", "\"", ":", " ">>
    \o NumToStr(obj.wordCount)
    \o <<"\n", "}">>

---------------------------------------------------------------------------
(* The output-format transform of extractTextFromImage. *)

\* extractedText.split('\n').filter(line => line.trim())
linesOf(text) == SelectSeq(split(text, "\n"), LAMBDA line : Truthy(trim(line)))

\* The count without the filter: split's empty pieces counted too.
wordCountUnfiltered(text) == Len(splitSpaces(text))

\* extractedText.split(/\s+/).filter(word => word).length
wordCountOf(text) == Len(SelectSeq(splitSpaces(text), Truthy))

jsonPayload(text) ==
    [text |-> text, lines |-> linesOf(text), wordCount |-> wordCountOf(text)]

\* The heading without the blank line.
MarkdownHeadingNoBlankLine ==
    <<"#", " ", "E", "x", "t", "r", "a", "c", "t", "e", "d", " ", "T", "e",
      "x", "t", "\n">>

MarkdownHeading ==
    <<"#", " ", "E", "x", "t", "r", "a", "c", "t", "e", "d", " ", "T", "e",
      "x", "t", "\n", "\n">>

\* let formattedText = extractedText; if (json) ... else if (markdown) ...
\* Reading .split of undefined throws inside the inner try, whose catch
\* leaves formattedText = extractedText.
formatOutput(text, outputFormat) ==
    IF outputFormat = "json"
    THEN IF IsString(text) THEN JSONStringify(jsonPayload(text)) ELSE text
    ELSE IF outputFormat = "markdown" THEN MarkdownHeading \o ToStr(text)
    ELSE text

---------------------------------------------------------------------------
(* The extractTextFromImage flow. *)

\* Buffer.from(input.imageBase64, 'base64').length, for n base64 digits:
\* each digit carries six bits, and an incomplete last byte is dropped.
Base64DecodedLength(n) == (n * 6) \div 8

\* The size check with the limit itself rejected.
exceedsLimitInclusive(imageSize) == imageSize >= 10 * 1024 * 1024

\* if (imageSize > 10 * 1024 * 1024) throw new Error(...)
exceedsLimit(imageSize) == imageSize > 10 * 1024 * 1024

\* The least number of base64 digits that decodes to more than the limit:
\* the digits of 10 MiB + 1 whole bytes.
FirstRejectedDigits == ((10 * 1024 * 1024 + 1) * 8 + 5) \div 6

Images ==
    {0, 8} \cup ((FirstRejectedDigits - 1 - SizeSlack)..(FirstRejectedDigits - 1 + SizeSlack))

GEMMA3_4B == <<"g", "e", "m", "m", "a", "3", ":", "4", "b">>

LLAVA_7B == <<"l", "l", "a", "v", "a", ":", "7", "b">>

RequestModels == {GEMMA3_4B, LLAVA_7B}

OutputFormats == {"text", "json", "markdown"}

Inputs == [imageBase64 : Images, model : RequestModels, outputFormat : OutputFormats]

Variants == {"axios", "genkit"}

TextChars == {"a", " ", "\n"}

Texts == UNION {[1..n -> TextChars] : n \in 0..MaxTextLen}

\* What the inference server does with POST /api/generate.
ServerBehaviours ==
    {[kind |-> k, text |-> <<>>] :
        k \in {"refused", "notFound", "serverError", "silent", "noText"}}
    \cup {[kind |-> "text", text |-> t] : t \in Texts}

IMAGE_TOO_LARGE ==
    <<"I", "m", "a", "g", "e", " ", "s", "i", "z", "e", " ", "e", "x", "c",
      "e", "e", "d", "s", " ", "1", "0", "M", "B", " ", "l", "i", "m", "i", "t">>

DEFAULT_ERROR ==
    <<"F", "a", "i", "l", "e", "d", " ", "t", "o", " ", "e", "x", "t", "r",
      "a", "c", "t", " ", "t", "e", "x", "t", " ", "f", "r", "o", "m", " ",
      "i", "m", "a", "g", "e">>

SERVER_NOT_RUNNING ==
    <<"O", "l", "l", "a", "m", "a", " ", "s", "e", "r", "v", "e", "r", " ",
      "i", "s", " ", "n", "o", "t", " ", "r", "u", "n", "n", "i", "n", "g",
      ".", " ", "P", "l", "e", "a", "s", "e", " ", "s", "t", "a", "r", "t",
      " ", "O", "l", "l", "a", "m", "a", " ", "w", "i", "t", "h", ":", " ",
      "o", "l", "l", "a", "m", "a", " ", "s", "e", "r", "v", "e">>

\* `Model ${input.model} not found. Please pull it with: ollama pull ${input.model}`
modelNotFound(model) ==
    <<"M", "o", "d", "e", "l", " ">> \o model
    \o <<" ", "n", "o", "t", " ", "f", "o", "u", "n", "d", ".", " ", "P",
         "l", "e", "a", "s", "e", " ", "p", "u", "l", "l", " ", "i", "t",
         " ", "w", "i", "t", "h", ":", " ", "o", "l", "l", "a", "m", "a",
         " ", "p", "u", "l", "l", " ">> \o model

ERROR_PREFIX == <<"E", "r", "r", "o", "r", ":", " ">>

HIGH == <<"H", "i", "g", "h">>

STARTING ==
    <<"S", "t", "a", "r", "t", "i", "n", "g", " ", "t", "e", "x", "t", " ",
      "e", "x", "t", "r", "a", "c", "t", "i", "o", "n", ".", ".", ".", "\n">>

\* A final chunk that does not state the time.
completeChunkWithoutTime(t) ==
    <<"\n", "E", "x", "t", "r", "a", "c", "t", "i", "o", "n", " ", "c", "o",
      "m", "p", "l", "e", "t", "e", "!">>

\* `\nExtraction complete! Processing time: ${processingTime}ms`
completeChunk(t) ==
    <<"\n", "E", "x", "t", "r", "a", "c", "t", "i", "o", "n", " ", "c", "o",
      "m", "p", "l", "e", "t", "e", "!", " ", "P", "r", "o", "c", "e", "s",
      "s", "i", "n", "g", " ", "t", "i", "m", "e", ":", " ">>
    \o NumToStr(t) \o <<"m", "s">>

\* The message of the Error the model provider rejects ai.generate with.
providerMessage(kind) ==
    IF kind = "refused"
    THEN <<"f", "e", "t", "c", "h", " ", "f", "a", "i", "l", "e", "d">>
    ELSE IF kind = "notFound"
    THEN <<"N", "o", "t", " ", "F", "o", "u", "n", "d">>
    ELSE IF kind = "silent"
    THEN <<"t", "i", "m", "e", "o", "u", "t">>
    ELSE <<"b", "a", "d", " ", "r", "e", "s", "p", "o", "n", "s", "e">>

NoError == [isAxiosError |-> FALSE, isError |-> FALSE, code |-> "", status |-> 0, message |-> <<>>]

\* What the awaited call throws for a server behaviour, NoError when it
\* resolves.  axios rejects with an AxiosError (a refused connection, a
\* non-2xx status, no answer within timeout: 120000); ai.generate rejects
\* with the provider's Error (it sets no time bound of its own: with a
\* silent server it rejects when the transport gives up, if it does).
thrownBy(v, behaviour) ==
    IF behaviour.kind \in {"text", "noText"} THEN NoError
    ELSE IF v = "axios"
    THEN [isAxiosError |-> TRUE, isError |-> TRUE,
          code |-> IF behaviour.kind = "refused" THEN "ECONNREFUSED"
                   ELSE IF behaviour.kind = "silent" THEN "ECONNABORTED"
                   ELSE "ERR_BAD_REQUEST",
          status |-> IF behaviour.kind = "notFound" THEN 404
                     ELSE IF behaviour.kind = "serverError" THEN 500 ELSE 0,
          message |-> providerMessage(behaviour.kind)]
    ELSE [isAxiosError |-> FALSE, isError |-> TRUE, code |-> "", status |-> 0,
          message |-> providerMessage(behaviour.kind)]

\* response.data.response (axios), response.text (genkit: the text of the
\* message, '' when it has none).
responseText(v, behaviour) ==
    IF behaviour.kind = "text" THEN behaviour.text
    ELSE IF v = "axios" THEN Undefined
    ELSE <<>>

\* The catch block's choice of errorMessage.
errorMessageOf(v, error, model) ==
    IF v = "axios" /\ error.isAxiosError
    THEN IF error.code = "ECONNREFUSED" THEN SERVER_NOT_RUNNING
         ELSE IF error.status = 404 THEN modelNotFound(model)
         ELSE DEFAULT_ERROR
    ELSE IF error.isError THEN error.message
    ELSE DEFAULT_ERROR

\* A catch block that hands the message back as the text.
failureResultWithText(v, error, model, elapsed) ==
    [extractedText |-> errorMessageOf(v, error, model),
     metadata |-> [model |-> model,
                   processingTime |-> elapsed,
                   imageSize |-> 0,
                   confidence |-> ERROR_PREFIX \o errorMessageOf(v, error, model)]]

\* A catch block that reports the confidence of a success.
failureResultHighConfidence(v, error, model, elapsed) ==
    [extractedText |-> <<>>,
     metadata |-> [model |-> model,
                   processingTime |-> elapsed,
                   imageSize |-> 0,
                   confidence |-> HIGH]]

\* The catch block's return value.
failureResult(v, error, model, elapsed) ==
    [extractedText |-> <<>>,
     metadata |-> [model |-> model,
                   processingTime |-> elapsed,
                   imageSize |-> 0,
                   confidence |-> ERROR_PREFIX \o errorMessageOf(v, error, model)]]

\* A try block that reports the size as the catch block does.
successResultNoSize(formattedText, model, elapsed, imageSize) ==
    [extractedText |-> formattedText,
     metadata |-> [model |-> model,
                   processingTime |-> elapsed,
                   imageSize |-> 0,
                   confidence |-> HIGH]]

\* The try block's return value.
successResult(formattedText, model, elapsed, imageSize) ==
    [extractedText |-> formattedText,
     metadata |-> [model |-> model,
                   processingTime |-> elapsed,
                   imageSize |-> imageSize,
                   confidence |-> HIGH]]

sizeError == [isAxiosError |-> FALSE, isError |-> TRUE, code |-> "", status |-> 0,
              message |-> IMAGE_TOO_LARGE]

\* imageExtractionOutputSchema, which the flow parses its return value
\* with: extractedText: z.string().
conformsToOutputSchema(r) == IsString(r.extractedText)

NoResult == successResult(<<>>, <<>>, 0, 0)

\* A listener that is handed the newest chunk first.
sendChunkFirst(sent, chunk) == <<chunk>> \o sent

\* sendChunk(chunk): the listener receives the chunk after those sent before.
sendChunk(sent, chunk) == Append(sent, chunk)

\* The clock reading itself, taken for the elapsed time.
elapsedSinceEpoch(start, t) == t

\* Date.now() - startTime
elapsedSince(start, t) == t - start

NotServed == [kind |-> "none", text |-> <<>>]

\* The flow is called: startTime, the size check and, when it passes, the
\* first chunk and the generation request; the call then awaits the server.
Invoke(inp, v) ==
    /\ pc = "idle"
    /\ UNCHANGED <<now, statusVars, displayVars, listVars, appVars>>
    /\ input' = inp
    /\ variant' = v
    /\ startTime' = now
    /\ extractedText' = <<>>
    /\ processingTime' = 0
    /\ served' = NotServed
    /\ IF exceedsLimit(Base64DecodedLength(inp.imageBase64))
       THEN /\ chunks' = <<>>
            /\ requests' = <<>>
            /\ result' = failureResult(v, sizeError, inp.model, elapsedSince(startTime', now'))
            /\ pc' = "returned"
       ELSE /\ chunks' = sendChunk(<<>>, STARTING)
            /\ requests' = <<[model |-> inp.model, images |-> <<inp.imageBase64>>]>>
            /\ result' = NoResult
            /\ pc' = "awaiting"

\* Time passes while the call waits or runs.
Tick ==
    /\ pc \in {"awaiting", "formatting"}
    /\ now < MaxClock
    /\ now' = now + 1
    /\ UNCHANGED <<pc, variant, input, startTime, chunks, requests, served,
                   extractedText, processingTime, result, statusVars, displayVars, listVars, appVars>>

\* The awaited call settles: it resolves and the flow reads the text and
\* the elapsed time, or it rejects and the catch block returns.
Settle(behaviour) ==
    /\ pc = "awaiting"
    /\ served' = behaviour
    /\ LET error == thrownBy(variant, behaviour) IN
       IF error = NoError
       THEN /\ extractedText' = responseText(variant, behaviour)
            /\ processingTime' = elapsedSince(startTime, now)
            /\ pc' = "formatting"
            /\ UNCHANGED result
       ELSE /\ result' = failureResult(variant, error, input.model,
                                        elapsedSince(startTime, now))
            /\ pc' = "returned"
            /\ UNCHANGED <<extractedText, processingTime>>
    /\ UNCHANGED <<variant, input, startTime, now, chunks, requests, statusVars, displayVars, listVars, appVars>>

\* The rest of the try block: the format transform, the final chunk and
\* the return value, which the flow parses with its output schema.
Finish ==
    /\ pc = "formatting"
    /\ LET r == successResult(formatOutput(extractedText, input.outputFormat),
                              input.model, processingTime,
                              Base64DecodedLength(input.imageBase64)) IN
       /\ chunks' = sendChunk(chunks, completeChunk(processingTime))
       /\ result' = r
       /\ pc' = IF conformsToOutputSchema(r) THEN "returned" ELSE "raised"
    /\ UNCHANGED <<variant, input, startTime, now, requests, served,
                   extractedText, processingTime, statusVars, displayVars, listVars, appVars>>

\* The locals of a call are gone.
Forgotten ==
    /\ pc' = "idle"
    /\ variant' = "genkit"
    /\ input' = [imageBase64 |-> 0, model |-> GEMMA3_4B, outputFormat |-> "text"]
    /\ startTime' = 0
    /\ chunks' = <<>>
    /\ requests' = <<>>
    /\ served' = NotServed
    /\ extractedText' = <<>>
    /\ processingTime' = 0
    /\ result' = NoResult

\* The caller has the result (or the exception); the next call starts from
\* nothing but the clock: the flow keeps no state between calls.
Return ==
    /\ pc \in {"returned", "raised"}
    /\ Forgotten
    /\ UNCHANGED <<now, statusVars, displayVars, listVars, appVars>>

---------------------------------------------------------------------------
(* The vision classification of lib/ollama.ts. *)

\* sub occurs in s at position i.
occursAt(s, sub, i) ==
    /\ i >= 1
    /\ i + Len(sub) - 1 <= Len(s)
    /\ SubSeq(s, i, i + Len(sub) - 1) = sub

\* A dot of a regular expression matches all but a line terminator.
IsLineTerminator(c) == c \in {"\n", "\r"}

\* /^head/ and /^head.*tail/ (anchored) and /head/ (not anchored).
Pattern(anchored, head, tail) == [anchored |-> anchored, head |-> head, tail |-> tail]

VISION_MODEL_PATTERNS ==
    << Pattern(TRUE, <<"l", "l", "a", "v", "a">>, <<>>),
       Pattern(TRUE, <<"b", "a", "k", "l", "l", "a", "v", "a">>, <<>>),
       Pattern(TRUE, <<"g", "e", "m", "m", "a", "3">>, <<>>),
       Pattern(TRUE, <<"g", "e", "m", "m", "a">>, <<"v", "i", "s", "i", "o", "n">>),
       Pattern(TRUE, <<"g", "e", "m", "m", "a", "2">>, <<"v", "i", "s", "i", "o", "n">>),
       Pattern(TRUE, <<"q", "w", "e", "n">>, <<"v", "l">>),
       Pattern(TRUE, <<"m", "i", "n", "i", "c", "p", "m", "-", "v">>, <<>>),
       Pattern(TRUE, <<"l", "l", "a", "m", "a">>, <<"v", "i", "s", "i", "o", "n">>),
       Pattern(TRUE, <<"m", "o", "o", "n", "d", "r", "e", "a", "m">>, <<>>),
       Pattern(FALSE, <<"v", "i", "s", "i", "o", "n">>, <<>>),
       Pattern(FALSE, <<"m", "u", "l", "t", "i", "m", "o", "d", "a", "l">>, <<>>) >>

\* pattern.test(s) for a pattern with the i flag: letters compare without case.
regexTest(pattern, s) ==
    LET t == toLowerCase(s) IN
    IF pattern.anchored
    THEN /\ occursAt(t, pattern.head, 1)
         /\ \/ pattern.tail = <<>>
            \/ \E i \in (Len(pattern.head) + 1)..Len(t) :
                  /\ occursAt(t, pattern.tail, i)
                  /\ \A j \in (Len(pattern.head) + 1)..(i - 1) : ~IsLineTerminator(t[j])
    ELSE \E i \in 1..Len(t) : occursAt(t, pattern.head, i)

\* VISION_MODEL_PATTERNS.some(pattern => pattern.test(modelName))
matchesSomePattern(modelName) ==
    \E k \in DOMAIN VISION_MODEL_PATTERNS : regexTest(VISION_MODEL_PATTERNS[k], modelName)

CLIP == <<"c", "l", "i", "p">>

VISION == <<"v", "i", "s", "i", "o", "n">>

\* families.includes('clip') || families.includes('vision'), families lowercased
familiesIncludeVision(families) ==
    \E k \in DOMAIN families : toLowerCase(families[k]) \in {CLIP, VISION}

\* An entry of the server's model list: name, and details.families when
\* hasFamilies.  The name is Undefined for an entry that carries none.
Entry(name, hasFamilies, families) ==
    [name |-> name, hasFamilies |-> hasFamilies, families |-> families]

\* A classification that reads the name and not the families.
isVisionModelByNameOnly(model) == matchesSomePattern(toLowerCase(model.name))

\* A classification that reads the families, and of the name only the part
\* before the first colon.
isVisionModelByFamilyPart(model) ==
    LET modelName == toLowerCase(model.name)
        colons == {i \in 1..Len(modelName) : modelName[i] = ":"}
        family == IF colons = {} THEN modelName
                  ELSE SubSeq(modelName, 1, (CHOOSE i \in colons : \A j \in colons : i <= j) - 1)
    IN IF matchesSomePattern(family) THEN TRUE
       ELSE IF model.hasFamilies THEN familiesIncludeVision(model.families)
       ELSE FALSE

isVisionModel(model) ==
    IF matchesSomePattern(toLowerCase(model.name)) THEN TRUE
    ELSE IF model.hasFamilies THEN familiesIncludeVision(model.families)
    ELSE FALSE

\* model.name.toLowerCase() of an entry without a name throws a TypeError.
isVisionModelThrows(model) == ~IsString(model.name)

\* The filtered names in the opposite order.
visionModelsReversed(models) ==
    LET kept == SelectSeq(models, isVisionModel) IN
    [k \in 1..Len(kept) |-> kept[Len(kept) + 1 - k].name]

\* (data.models || []).filter(m => isVisionModel(m)).map(m => m.name)
visionModels(models) ==
    LET kept == SelectSeq(models, isVisionModel) IN
    [k \in 1..Len(kept) |-> kept[k].name]

---------------------------------------------------------------------------
(* checkOllamaStatus of lib/ollama.ts. *)

MISTRAL_7B == <<"m", "i", "s", "t", "r", "a", "l", ":", "7", "b">>

FOO_9B == <<"f", "o", "o", ":", "9", "b">>

GEMMA_7B == <<"g", "e", "m", "m", "a", ":", "7", "b">>

GEMMA3_27B == <<"g", "e", "m", "m", "a", "3", ":", "2", "7", "b">>

MISTRAL_VISION == <<"m", "i", "s", "t", "r", "a", "l", ":", "v", "i", "s", "i", "o", "n">>

\* Identifiers an inference server may report.
ModelNames ==
    { LLAVA_7B, GEMMA3_4B, GEMMA3_27B, MISTRAL_7B, MISTRAL_VISION, FOO_9B, GEMMA_7B,
      <<"L", "L", "a", "V", "A", ":", "1", "3", "b">>,
      <<"q", "w", "e", "n", "2", "-", "v", "l">>,
      <<"l", "l", "a", "m", "a", "3", ".", "2", "-", "v", "i", "s", "i", "o", "n", ":", "1", "1", "b">>,
      <<"m", "o", "o", "n", "d", "r", "e", "a", "m">>,
      <<"m", "i", "n", "i", "c", "p", "m", "-", "v", ":", "8", "b">>,
      <<"b", "a", "k", "l", "l", "a", "v", "a">>,
      <<"p", "h", "i", ":", "m", "u", "l", "t", "i", "m", "o", "d", "a", "l">>,
      <<"g", "e", "m", "m", "a", "3", "n", ":", "e", "2", "b">> }

\* Entries of GET /api/tags: every identifier without details, some with
\* details.families, and one without a name.
TagEntries ==
    {Entry(n, FALSE, <<>>) : n \in ModelNames}
    \cup { Entry(MISTRAL_7B, TRUE, << <<"l", "l", "a", "m", "a">>, CLIP >>),
           Entry(MISTRAL_7B, TRUE, << <<"C", "L", "I", "P">> >>),
           Entry(MISTRAL_7B, TRUE, << <<"l", "l", "a", "m", "a">> >>),
           Entry(FOO_9B, TRUE, << <<"V", "i", "s", "i", "o", "n">> >>),
           Entry(GEMMA_7B, TRUE, <<>>),
           Entry(Undefined, FALSE, <<>>) }

ModelLists == UNION {[1..n -> TagEntries] : n \in 0..MaxModels}

\* How the server answers GET /api/tags: no connection, no answer within
\* AbortSignal.timeout(5000), a non-2xx status, a 2xx status with a body
\* that is not JSON, a 2xx status with a JSON body with or without models.
TagsResponses ==
    {[kind |-> k, hasModels |-> FALSE, models |-> <<>>] :
        k \in {"refused", "timeout", "non2xx", "badJson", "ok"}}
    \cup {[kind |-> "ok", hasModels |-> TRUE, models |-> ms] : ms \in ModelLists}

NOT_RESPONDING ==
    <<"O", "l", "l", "a", "m", "a", " ", "s", "e", "r", "v", "e", "r", " ",
      "i", "s", " ", "n", "o", "t", " ", "r", "e", "s", "p", "o", "n", "d",
      "i", "n", "g", ".">>

CANNOT_CONNECT ==
    <<"C", "a", "n", "n", "o", "t", " ", "c", "o", "n", "n", "e", "c", "t",
      " ", "t", "o", " ", "O", "l", "l", "a", "m", "a", ".">>

\* The message of the error the platform throws: fetch (TypeError), the
\* abort signal (TimeoutError), response.json() (SyntaxError), reading a
\* property of undefined (TypeError).
platformMessage(what) ==
    IF what = "refused"
    THEN <<"f", "e", "t", "c", "h", " ", "f", "a", "i", "l", "e", "d">>
    ELSE IF what = "timeout"
    THEN <<"T", "h", "e", " ", "o", "p", "e", "r", "a", "t", "i", "o", "n",
           " ", "w", "a", "s", " ", "a", "b", "o", "r", "t", "e", "d", " ",
           "d", "u", "e", " ", "t", "o", " ", "t", "i", "m", "e", "o", "u", "t">>
    ELSE IF what = "badJson"
    THEN <<"U", "n", "e", "x", "p", "e", "c", "t", "e", "d", " ", "t", "o",
           "k", "e", "n", " ", "<", " ", "i", "n", " ", "J", "S", "O", "N",
           " ", "a", "t", " ", "p", "o", "s", "i", "t", "i", "o", "n", " ", "0">>
    ELSE <<"C", "a", "n", "n", "o", "t", " ", "r", "e", "a", "d", " ", "p",
           "r", "o", "p", "e", "r", "t", "i", "e", "s", " ", "o", "f", " ",
           "u", "n", "d", "e", "f", "i", "n", "e", "d", " ", "(", "r", "e",
           "a", "d", "i", "n", "g", " ", "'", "t", "o", "L", "o", "w", "e",
           "r", "C", "a", "s", "e", "'", ")">>

ThrownError(message) == [isError |-> TRUE, message |-> message]

NothingThrown == [isError |-> FALSE, message |-> <<>>]

\* A try block without the test of response.ok.
thrownInCheckWithoutOkTest(response) ==
    IF response.kind \in {"refused", "timeout", "badJson"}
    THEN ThrownError(platformMessage(response.kind))
    ELSE IF \E k \in DOMAIN response.models : isVisionModelThrows(response.models[k])
    THEN ThrownError(platformMessage("noName"))
    ELSE NothingThrown

\* What the try block of checkOllamaStatus throws for an answer,
\* NothingThrown when it runs to its return.
thrownInCheck(response) ==
    IF response.kind \in {"refused", "timeout", "badJson"}
    THEN ThrownError(platformMessage(response.kind))
    ELSE IF response.kind = "non2xx" THEN ThrownError(NOT_RESPONDING)
    ELSE IF \E k \in DOMAIN response.models : isVisionModelThrows(response.models[k])
    THEN ThrownError(platformMessage("noName"))
    ELSE NothingThrown

\* The catch block's return value.
failureStatus(error) ==
    [isRunning |-> FALSE,
     models |-> <<>>,
     error |-> IF error.isError THEN error.message ELSE CANNOT_CONNECT]

\* The try block's return value; it has no error key.
successStatus(models) ==
    [isRunning |-> TRUE, models |-> visionModels(models), error |-> Undefined]

statusFor(response) ==
    LET error == thrownInCheck(response) IN
    IF error = NothingThrown
    THEN successStatus(IF response.hasModels THEN response.models ELSE <<>>)
    ELSE failureStatus(error)

NoStatus == [isRunning |-> FALSE, models |-> <<>>, error |-> Undefined]

NoResponse == [kind |-> "none", hasModels |-> FALSE, models |-> <<>>]

\* A check that repeats its fetch at once.
CheckStartTwice ==
    /\ spc = "idle"
    /\ checksDone < MaxChecks
    /\ spc' = "fetching"
    /\ listRequests' = listRequests + 2
    /\ UNCHANGED <<tagsResponse, status, checksDone, extractVars, displayVars, listVars, appVars>>

\* checkOllamaStatus is called: one fetch of /api/tags is issued.
CheckStart ==
    /\ spc = "idle"
    /\ checksDone < MaxChecks
    /\ spc' = "fetching"
    /\ listRequests' = listRequests + 1
    /\ UNCHANGED <<tagsResponse, status, checksDone, extractVars, displayVars, listVars, appVars>>

\* The fetch settles and the check returns its status.
CheckSettle(response) ==
    /\ spc = "fetching"
    /\ tagsResponse' = response
    /\ status' = statusFor(response)
    /\ spc' = "returned"
    /\ checksDone' = checksDone + 1
    /\ UNCHANGED <<listRequests, extractVars, displayVars, listVars, appVars>>

\* The caller has the status; the check keeps nothing for the next call.
CheckReturn ==
    /\ spc = "returned"
    /\ spc' = "idle"
    /\ tagsResponse' = NoResponse
    /\ status' = NoStatus
    /\ listRequests' = 0
    /\ UNCHANGED <<checksDone, extractVars, displayVars, listVars, appVars>>

---------------------------------------------------------------------------
(* The model catalog: getModelDisplayInfo of lib/genkit/config.ts. *)

\* The upper-case letter of each lower-case letter.
UpperOf == [c \in {LowerChars[i] : i \in DOMAIN LowerChars} |-> UpperChars[IndexOf(c, LowerChars)]]

toUpperChar(c) == IF c \in DOMAIN UpperOf THEN UpperOf[c] ELSE c

toUpperCase(s) == [i \in 1..Len(s) |-> toUpperChar(s[i])]

\* One entry of KNOWN_VISION_MODELS, as a function of its one key.
Known(key, name, description) == key :> [name |-> name, description |-> description]

KNOWN_VISION_MODELS ==
    Known(<<"l", "l", "a", "v", "a">>,
          <<"L", "L", "a", "V", "A">>,
          <<"E", "f", "f", "i", "c", "i", "e", "n", "t", " ", "m", "u",
            "l", "t", "i", "m", "o", "d", "a", "l", " ", "v", "i", "s",
            "i", "o", "n", " ", "m", "o", "d", "e", "l">>)
    @@
    Known(<<"l", "l", "a", "v", "a", "-", "l", "l", "a", "m", "a", "3">>,
          <<"L", "L", "a", "V", "A", " ", "L", "l", "a", "m", "a", " ",
            "3">>,
          <<"L", "L", "a", "V", "A", " ", "w", "i", "t", "h", " ", "L",
            "l", "a", "m", "a", " ", "3", " ", "b", "a", "s", "e">>)
    @@
    Known(<<"l", "l", "a", "v", "a", "-", "p", "h", "i", "3">>,
          <<"L", "L", "a", "V", "A", " ", "P", "h", "i", " ", "3">>,
          <<"L", "L", "a", "V", "A", " ", "w", "i", "t", "h", " ", "P",
            "h", "i", " ", "3", " ", "b", "a", "s", "e">>)
    @@
    Known(<<"b", "a", "k", "l", "l", "a", "v", "a">>,
          <<"B", "a", "k", "L", "L", "a", "V", "A">>,
          <<"A", "l", "t", "e", "r", "n", "a", "t", "i", "v", "e", " ",
            "L", "L", "a", "V", "A", " ", "i", "m", "p", "l", "e", "m",
            "e", "n", "t", "a", "t", "i", "o", "n">>)
    @@
    Known(<<"l", "l", "a", "v", "a", "-", "v", "1", ".", "6", "-", "m",
            "i", "s", "t", "r", "a", "l">>,
          <<"L", "L", "a", "V", "A", " ", "v", "1", ".", "6", " ", "M",
            "i", "s", "t", "r", "a", "l">>,
          <<"L", "L", "a", "V", "A", " ", "w", "i", "t", "h", " ", "M",
            "i", "s", "t", "r", "a", "l", " ", "b", "a", "s", "e">>)
    @@
    Known(<<"g", "e", "m", "m", "a", "3">>,
          <<"G", "e", "m", "m", "a", " ", "3">>,
          <<"G", "o", "o", "g", "l", "e", "'", "s", " ", "l", "a", "t",
            "e", "s", "t", " ", "m", "u", "l", "t", "i", "m", "o", "d",
            "a", "l", " ", "m", "o", "d", "e", "l", " ", "w", "i", "t",
            "h", " ", "v", "i", "s", "i", "o", "n", " ", "c", "a", "p",
            "a", "b", "i", "l", "i", "t", "i", "e", "s">>)
    @@
    Known(<<"g", "e", "m", "m", "a">>,
          <<"G", "e", "m", "m", "a">>,
          <<"G", "o", "o", "g", "l", "e", "'", "s", " ", "m", "u", "l",
            "t", "i", "m", "o", "d", "a", "l", " ", "m", "o", "d", "e",
            "l">>)
    @@
    Known(<<"g", "e", "m", "m", "a", "2">>,
          <<"G", "e", "m", "m", "a", " ", "2">>,
          <<"G", "o", "o", "g", "l", "e", "'", "s", " ", "G", "e", "m",
            "m", "a", " ", "2", " ", "m", "o", "d", "e", "l">>)
    @@
    Known(<<"q", "w", "e", "n", "2", "-", "v", "l">>,
          <<"Q", "w", "e", "n", "2", " ", "V", "L">>,
          <<"Q", "w", "e", "n", " ", "v", "i", "s", "i", "o", "n", "-",
            "l", "a", "n", "g", "u", "a", "g", "e", " ", "m", "o", "d",
            "e", "l">>)
    @@
    Known(<<"m", "i", "n", "i", "c", "p", "m", "-", "v">>,
          <<"M", "i", "n", "i", "C", "P", "M", "-", "V">>,
          <<"E", "f", "f", "i", "c", "i", "e", "n", "t", " ", "v", "i",
            "s", "i", "o", "n", " ", "m", "o", "d", "e", "l">>)
    @@
    Known(<<"l", "l", "a", "m", "a", "3", ".", "2", "-", "v", "i", "s",
            "i", "o", "n">>,
          <<"L", "l", "a", "m", "a", " ", "3", ".", "2", " ", "V", "i",
            "s", "i", "o", "n">>,
          <<"M", "e", "t", "a", "'", "s", " ", "v", "i", "s", "i", "o",
            "n", " ", "m", "o", "d", "e", "l">>)
    @@
    Known(<<"m", "o", "o", "n", "d", "r", "e", "a", "m">>,
          <<"M", "o", "o", "n", "d", "r", "e", "a", "m">>,
          <<"L", "i", "g", "h", "t", "w", "e", "i", "g", "h", "t", " ",
            "v", "i", "s", "i", "o", "n", " ", "m", "o", "d", "e", "l">>)

\* KNOWN_VISION_MODELS is an object literal: a key it does not own is looked
\* up in Object.prototype.  constructor is the function Object and toString
\* a function (each has a name and no description; valueOf, hasOwnProperty
\* and the other methods are like toString); __proto__ is Object.prototype
\* itself, which has neither.
ObjectPrototype ==
    Known(<<"c", "o", "n", "s", "t", "r", "u", "c", "t", "o", "r">>,
          <<"O", "b", "j", "e", "c", "t">>, Undefined)
    @@
    Known(<<"t", "o", "S", "t", "r", "i", "n", "g">>,
          <<"t", "o", "S", "t", "r", "i", "n", "g">>, Undefined)
    @@
    Known(<<"_", "_", "p", "r", "o", "t", "o", "_", "_">>, Undefined, Undefined)

\* if (KNOWN_VISION_MODELS[key]): every inherited value is an object, truthy.
hasKnown(key) == key \in DOMAIN KNOWN_VISION_MODELS \/ key \in DOMAIN ObjectPrototype

\* KNOWN_VISION_MODELS[key]
getKnown(key) ==
    IF key \in DOMAIN KNOWN_VISION_MODELS THEN KNOWN_VISION_MODELS[key]
    ELSE IF key \in DOMAIN ObjectPrototype THEN ObjectPrototype[key]
    ELSE [name |-> Undefined, description |-> Undefined]

VISION_CAPABLE == <<"V", "i", "s", "i", "o", "n", "-", "c", "a", "p", "a", "b", "l", "e", " ", "m", "o", "d", "e", "l">>

\* part.charAt(0).toUpperCase() + part.slice(1)
capitalize(part) ==
    IF part = <<>> THEN <<>> ELSE <<toUpperChar(Head(part))>> \o Tail(part)

\* modelId.split(':')[1], undefined when there is no colon.
secondSegment(modelId) ==
    LET parts == split(modelId, ":") IN
    IF Len(parts) >= 2 THEN parts[2] ELSE Undefined

\* `${name} ${size?.toUpperCase() || ''}`.trim()
knownName(name, size) ==
    trim(ToStr(name) \o <<" ">>
         \o (IF IsString(size) /\ Truthy(size) THEN toUpperCase(size) ELSE <<>>))

\* The default branch: every segment capitalized, joined by spaces.
defaultName(modelId) ==
    LET parts == split(modelId, ":") IN
    Join([i \in 1..Len(parts) |-> capitalize(parts[i])], <<" ">>)

getModelDisplayInfo(modelId) ==
    LET baseModel == split(modelId, ":")[1] IN
    IF hasKnown(modelId) THEN getKnown(modelId)
    ELSE IF hasKnown(baseModel)
    THEN [name |-> knownName(getKnown(baseModel).name, secondSegment(modelId)),
          description |-> getKnown(baseModel).description]
    ELSE [name |-> defaultName(modelId), description |-> VISION_CAPABLE]

NoDisplayInfo == [name |-> <<>>, description |-> <<>>]

\* Families an identifier may begin with: the keys of the table, families
\* the table does not know, a family written in capitals, the empty family,
\* and names that Object.prototype answers to.
DisplayFamilies ==
    DOMAIN KNOWN_VISION_MODELS \cup DOMAIN ObjectPrototype
    \cup { <<"f", "o", "o">>,
           <<"L", "L", "a", "V", "A">>,
           <<"g", "e", "m", "m", "a", "3", "n">>,
           <<"m", "i", "s", "t", "r", "a", "l">>,
           <<>> }

\* What follows the family: nothing, an empty variant, a variant, several
\* colon-separated segments.
DisplaySuffixes ==
    { <<>>,
      <<":">>,
      <<":", "7", "b">>,
      <<":", "l", "a", "t", "e", "s", "t">>,
      <<":", "1", "3", "b", ":", "q", "4">>,
      <<":", ":">> }

ModelIds == {family \o suffix : family \in DisplayFamilies, suffix \in DisplaySuffixes}

\* getModelDisplayInfo is called and returns.
Display(id) ==
    /\ dpc = "idle"
    /\ displayId' = id
    /\ displayInfo' = getModelDisplayInfo(id)
    /\ dpc' = "returned"
    /\ UNCHANGED <<extractVars, statusVars, listVars, appVars>>

\* The caller has the info; the function keeps no state.
DisplayReturn ==
    /\ dpc = "returned"
    /\ dpc' = "idle"
    /\ displayId' = <<>>
    /\ displayInfo' = NoDisplayInfo
    /\ UNCHANGED <<extractVars, statusVars, listVars, appVars>>

---------------------------------------------------------------------------
(* getAvailableModels of lib/genkit/flows.ts: the status check, one entry
   per reported model, the sort. *)

UNKNOWN == <<"U", "n", "k", "n", "o", "w", "n">>

GEMMA3 == <<"g", "e", "m", "m", "a", "3">>

\* modelId.includes(':')
includes(s, c) == \E i \in DOMAIN s : s[i] = c

\* modelId.includes(':') ? modelId.split(':')[1] : ''
sizeInfoOf(id) == IF includes(id, ":") THEN split(id, ":")[2] ELSE <<>>

\* A flag that compares the identifier as it is written.
isRecommendedCaseSensitive(id) == occursAt(id, GEMMA3, 1)

\* modelId.toLowerCase().startsWith('gemma3')
isRecommended(id) == occursAt(toLowerCase(id), GEMMA3, 1)

\* The entry status.models.map(...) builds for one identifier.
modelEntry(id) ==
    [id |-> id,
     name |-> getModelDisplayInfo(id).name,
     description |-> getModelDisplayInfo(id).description,
     size |-> IF Truthy(sizeInfoOf(id)) THEN sizeInfoOf(id) ELSE UNKNOWN,
     available |-> TRUE,
     recommended |-> isRecommended(id)]

\* The order in which the collation of localeCompare ranks characters that
\* differ by more than case: white space, punctuation, digits, letters.
CollationOrder ==
    <<" ", "_", "-", ":", ".">> \o Digits \o LowerChars

CollationChars == {CollationOrder[i] : i \in DOMAIN CollationOrder}

\* The primary weight of a character: its rank without case.
primaryWeight ==
    [c \in CollationChars \cup DOMAIN LowerOf |->
        IndexOf(toLowerChar(c), CollationOrder)]

\* The case weight of a character: lower case ranks before upper case.
caseWeight ==
    [c \in CollationChars \cup DOMAIN LowerOf |-> IF c \in DOMAIN LowerOf THEN 1 ELSE 0]

\* Compare two strings weight by weight; a proper prefix ranks first.
RECURSIVE compareBy(_, _, _)
compareBy(weight, a, b) ==
    IF a = <<>> /\ b = <<>> THEN 0
    ELSE IF a = <<>> THEN -1
    ELSE IF b = <<>> THEN 1
    ELSE IF weight[Head(a)] < weight[Head(b)] THEN -1
    ELSE IF weight[Head(a)] > weight[Head(b)] THEN 1
    ELSE compareBy(weight, Tail(a), Tail(b))

\* a.localeCompare(b): by primary weights, and by case between strings
\* that differ in case only.
localeCompare(a, b) ==
    IF compareBy(primaryWeight, a, b) # 0 THEN compareBy(primaryWeight, a, b)
    ELSE compareBy(caseWeight, a, b)

\* A comparator that ignores the flag.
compareModelsByNameOnly(a, b) == localeCompare(a.name, b.name)

\* The comparator of models.sort.
compareModels(a, b) ==
    IF a.recommended /\ ~b.recommended THEN -1
    ELSE IF ~a.recommended /\ b.recommended THEN 1
    ELSE localeCompare(a.name, b.name)

\* Array.prototype.sort is stable: an element goes before the first one it
\* ranks strictly below.
RECURSIVE insertSorted(_, _)
insertSorted(sorted, e) ==
    IF sorted = <<>> THEN <<e>>
    ELSE IF compareModels(e, Head(sorted)) < 0 THEN <<e>> \o sorted
    ELSE <<Head(sorted)>> \o insertSorted(Tail(sorted), e)

RECURSIVE sortModels(_)
sortModels(models) ==
    IF models = <<>> THEN <<>>
    ELSE insertSorted(sortModels(SubSeq(models, 1, Len(models) - 1)),
                      models[Len(models)])

\* A return value that leaves the status of the check out.
availableModelsWithoutStatus(st) ==
    [models |-> sortModels([k \in DOMAIN st.models |-> modelEntry(st.models[k])]),
     ollamaStatus |-> [isRunning |-> FALSE, models |-> <<>>, error |-> Undefined]]

\* The return value of getAvailableModels for the status of its check.
availableModels(st) ==
    [models |-> sortModels([k \in DOMAIN st.models |-> modelEntry(st.models[k])]),
     ollamaStatus |-> st]

\* The flow's outputSchema: name, description and size are z.string().
conformsToListSchema(r) ==
    \A k \in DOMAIN r.models :
        /\ IsString(r.models[k].name)
        /\ IsString(r.models[k].description)

NoListResult == [models |-> <<>>, ollamaStatus |-> NoStatus]

LLAVA_7B_CAPS == <<"L", "L", "a", "V", "A", ":", "7", "B">>

GEMMA3_CAPS_4B == <<"G", "e", "m", "m", "a", "3", ":", "4", "b">>

GEMMA3N_E2B == <<"g", "e", "m", "m", "a", "3", "n", ":", "e", "2", "b">>

LLAMA_VISION_11B ==
    <<"l", "l", "a", "m", "a", "3", ".", "2", "-", "v", "i", "s", "i", "o",
      "n", ":", "1", "1", "b">>

MOONDREAM == <<"m", "o", "o", "n", "d", "r", "e", "a", "m">>

BAKLLAVA == <<"b", "a", "k", "l", "l", "a", "v", "a">>

LLAVA_NO_VARIANT == <<"l", "l", "a", "v", "a", ":">>

CONSTRUCTOR_LATEST ==
    <<"c", "o", "n", "s", "t", "r", "u", "c", "t", "o", "r", ":", "l", "a",
      "t", "e", "s", "t">>

\* Entries of GET /api/tags for the list: identifiers of the table with
\* and without a variant, preferred and not (bakllava's name is before
\* every preferred one in the alphabet), written in capitals, unknown
\* to the table, not vision-capable, and one whose family is a name that
\* Object.prototype answers to (vision-capable by its families).
ListedEntries ==
    {Entry(n, FALSE, <<>>) :
        n \in {LLAVA_7B, LLAVA_7B_CAPS, GEMMA3_4B, GEMMA3_27B, GEMMA3_CAPS_4B,
               GEMMA3N_E2B, LLAMA_VISION_11B, MOONDREAM, BAKLLAVA,
               LLAVA_NO_VARIANT, MISTRAL_7B}}
    \cup {Entry(CONSTRUCTOR_LATEST, TRUE, <<CLIP>>)}

ListedModelLists == UNION {[1..n -> ListedEntries] : n \in 0..MaxModels}

ListedResponses ==
    {[kind |-> k, hasModels |-> FALSE, models |-> <<>>] :
        k \in {"refused", "timeout", "non2xx", "badJson", "ok"}}
    \cup {[kind |-> "ok", hasModels |-> TRUE, models |-> ms] : ms \in ListedModelLists}

\* getAvailableModels is called: it calls checkOllamaStatus, which issues
\* its fetch of /api/tags.
ListStart ==
    /\ lpc = "idle"
    /\ spc = "idle"
    /\ checksDone < MaxChecks
    /\ lpc' = "checking"
    /\ spc' = "fetching"
    /\ listRequests' = listRequests + 1
    /\ UNCHANGED <<tagsResponse, status, checksDone, listResult, extractVars, displayVars, appVars>>

\* The check has returned: the entries are built and sorted and the flow
\* returns them with the status, parsed with its output schema.
ListFinish ==
    /\ lpc = "checking"
    /\ spc = "returned"
    /\ listResult' = availableModels(status)
    /\ lpc' = IF conformsToListSchema(availableModels(status)) THEN "returned" ELSE "raised"
    /\ UNCHANGED <<statusVars, extractVars, displayVars, appVars>>

\* The caller has the list (or the exception); nothing is kept.
ListReturn ==
    /\ lpc \in {"returned", "raised"}
    /\ lpc' = "idle"
    /\ listResult' = NoListResult
    /\ spc' = "idle"
    /\ tagsResponse' = NoResponse
    /\ status' = NoStatus
    /\ listRequests' = 0
    /\ UNCHANGED <<checksDone, extractVars, displayVars, appVars>>

---------------------------------------------------------------------------
(* Several calls of extractTextFromImage in flight at once, one per
   incoming request.  Every call has its own input, startTime, responses
   and listener (the locals and the sendChunk of its invocation); the
   calls share the clock and nothing else. *)

CallIds == 1..MaxCalls

NoCall ==
    [pc |-> "idle", variant |-> "genkit",
     input |-> [imageBase64 |-> 0, model |-> GEMMA3_4B, outputFormat |-> "text"],
     startTime |-> 0, chunks |-> <<>>, requests |-> <<>>, served |-> NotServed,
     extractedText |-> <<>>, processingTime |-> 0, result |-> NoResult]

ConcurrentInputs ==
    {[imageBase64 |-> 8, model |-> GEMMA3_4B, outputFormat |-> "text"],
     [imageBase64 |-> 12, model |-> LLAVA_7B, outputFormat |-> "text"],
     [imageBase64 |-> FirstRejectedDigits, model |-> LLAVA_7B, outputFormat |-> "text"]}

ConcurrentBehaviours ==
    {[kind |-> "refused", text |-> <<>>],
     [kind |-> "text", text |-> <<"a">>],
     [kind |-> "text", text |-> <<>>]}

\* A sendChunk that hands the chunk to every listener there is.
deliverToAll(cs, c, chunk) ==
    [k \in DOMAIN cs |->
        IF cs[k].pc = "idle" /\ k # c THEN cs[k]
        ELSE [cs[k] EXCEPT !.chunks = sendChunk(@, chunk)]]

\* sendChunk of call c: the chunk goes to the listener of that call.
deliverTo(cs, c, chunk) == [cs EXCEPT ![c].chunks = sendChunk(@, chunk)]

\* The locals of a call from its start to its first await (or to the
\* return of the catch block, for an image over the limit).
started(inp, v, t) ==
    IF exceedsLimit(Base64DecodedLength(inp.imageBase64))
    THEN [NoCall EXCEPT !.pc = "returned", !.variant = v, !.input = inp,
                        !.startTime = t,
                        !.result = failureResult(v, sizeError, inp.model,
                                                 elapsedSince(t, t))]
    ELSE [NoCall EXCEPT !.pc = "awaiting", !.variant = v, !.input = inp,
                        !.startTime = t,
                        !.requests = <<[model |-> inp.model,
                                        images |-> <<inp.imageBase64>>]>>]

\* The locals of a call once its awaited request has settled at time t.
settled(call, behaviour, t) ==
    LET error == thrownBy(call.variant, behaviour) IN
    IF error = NoError
    THEN [call EXCEPT !.served = behaviour,
                      !.extractedText = responseText(call.variant, behaviour),
                      !.processingTime = elapsedSince(call.startTime, t),
                      !.pc = "formatting"]
    ELSE [call EXCEPT !.served = behaviour,
                      !.result = failureResult(call.variant, error, call.input.model,
                                               elapsedSince(call.startTime, t)),
                      !.pc = "returned"]

\* The return value of the try block of a call.
finished(call) ==
    LET r == successResult(formatOutput(call.extractedText, call.input.outputFormat),
                           call.input.model, call.processingTime,
                           Base64DecodedLength(call.input.imageBase64)) IN
    [call EXCEPT !.result = r,
                 !.pc = IF conformsToOutputSchema(r) THEN "returned" ELSE "raised"]

callVars == <<pc, variant, input, startTime, chunks, requests, served,
              extractedText, processingTime, result>>

\* A request comes in and the flow is called for it; the calls in flight
\* run the same definition of the flow.
CallInvoke(c, inp, v) ==
    /\ calls[c].pc = "idle"
    /\ \A k \in CallIds : calls[k].pc = "idle" \/ calls[k].variant = v
    /\ LET call == started(inp, v, now) IN
       calls' = IF call.pc = "awaiting"
                THEN deliverTo([calls EXCEPT ![c] = call], c, STARTING)
                ELSE [calls EXCEPT ![c] = call]
    /\ UNCHANGED <<extractVars, statusVars, displayVars, listVars, http, page>>

\* The request of call c settles.
CallSettle(c, behaviour) ==
    /\ calls[c].pc = "awaiting"
    /\ calls' = [calls EXCEPT ![c] = settled(calls[c], behaviour, now)]
    /\ UNCHANGED <<extractVars, statusVars, displayVars, listVars, http, page>>

\* Call c formats, sends its final chunk and returns.
CallFinish(c) ==
    /\ calls[c].pc = "formatting"
    /\ calls' = deliverTo([calls EXCEPT ![c] = finished(calls[c])], c,
                          completeChunk(calls[c].processingTime))
    /\ UNCHANGED <<extractVars, statusVars, displayVars, listVars, http, page>>

\* Time passes while some call is in flight.
ClockTick ==
    /\ \E c \in CallIds : calls[c].pc \in {"awaiting", "formatting"}
    /\ now < MaxClock
    /\ now' = now + 1
    /\ UNCHANGED <<callVars, calls, statusVars, displayVars, listVars, http, page>>

---------------------------------------------------------------------------
(* The extraction endpoint, POST /api/extract-text, in its two forms: the
   handler that checks the inference server itself and then streams the
   flow's result ("stream"), and appRoute(extractTextFromImage)
   ("appRoute"), which calls the flow and answers with what it returns. *)

Routes == {"stream", "appRoute"}

\* The requests: the body as parsed, whether it satisfies requestSchema,
\* and whether the client asked for an event stream.
RouteRequests ==
    [valid : BOOLEAN, streaming : BOOLEAN,
     model : RequestModels, imageBase64 : {8, FirstRejectedDigits}]

\* The answers of the inference server to the handler's own GET /api/tags.
RouteResponses ==
    {r \in ListedResponses : r.models \in {<<>>, <<Entry(GEMMA3_4B, FALSE, <<>>)>>}}

\* The answers of the inference server to the flow's generation request.
RouteBehaviours ==
    {[kind |-> k, text |-> <<>>] : k \in {"refused", "notFound", "serverError", "noText"}}
    \cup {[kind |-> "text", text |-> <<"a">>]}

NoHttp ==
    [route |-> "none", stage |-> "idle", valid |-> TRUE, streaming |-> TRUE,
     model |-> GEMMA3_4B, imageBase64 |-> 0, check |-> NoResponse, status |-> 0]

\* ollamaData.models?.map((m: any) => m.name) || []
availableNames(response) == [k \in DOMAIN response.models |-> response.models[k].name]

\* availableModels.includes(validatedData.model)
includesName(names, model) == \E k \in DOMAIN names : names[k] = model

\* A handler that answers an unreachable server as it answers an
\* uninstalled model.
precheckStatusAlways400(response, model) ==
    IF response.kind = "ok" /\ includesName(availableNames(response), model)
    THEN 0
    ELSE 400

\* What the handler answers after its own check of the server, 0 when it
\* goes on to the flow: 503 when the fetch failed or was not ok, 400 (the
\* outer catch) when the body is not JSON, 400 when the model is not among
\* the installed ones.
precheckStatus(response, model) ==
    IF response.kind \in {"refused", "timeout", "non2xx"} THEN 503
    ELSE IF response.kind = "badJson" THEN 400
    ELSE IF includesName(availableNames(response), model) THEN 0
    ELSE 400

\* The status of appRoute's answer: the flow's return value is sent as the
\* result; an exception ends an event stream that has begun, and is
\* answered with 500 otherwise.
appRouteStatus(position, streaming) ==
    IF position = "returned" \/ streaming THEN 200 ELSE 500

\* A request arrives.  The stream handler parses the body with its schema
\* and answers 400 when that fails.
RouteReceive(route, req) ==
    /\ http.stage = "idle"
    /\ pc = "idle"
    /\ route = "appRoute" => req.valid
    /\ route = "stream" => req.streaming
    /\ http' = [NoHttp EXCEPT !.route = route, !.valid = req.valid,
                              !.streaming = req.streaming, !.model = req.model,
                              !.imageBase64 = req.imageBase64,
                              !.stage = IF ~req.valid THEN "responded"
                                        ELSE IF route = "stream" THEN "checking"
                                        ELSE "flow",
                              !.status = IF ~req.valid THEN 400 ELSE 0]
    /\ UNCHANGED <<extractVars, statusVars, displayVars, listVars, calls, page>>

\* The stream handler's fetch of /api/tags settles: an error answer, or
\* the event stream is opened (status 200) and the flow is called in it.
RouteCheck(response) ==
    /\ http.stage = "checking"
    /\ LET s == precheckStatus(response, http.model) IN
       http' = [http EXCEPT !.check = response,
                            !.status = IF s = 0 THEN 200 ELSE s,
                            !.stage = IF s = 0 THEN "flow" ELSE "responded"]
    /\ UNCHANGED <<extractVars, statusVars, displayVars, listVars, calls, page>>

\* The input the handler calls the flow with.
RouteInput ==
    [imageBase64 |-> http.imageBase64, model |-> http.model, outputFormat |-> "text"]

\* The handler calls the flow.
RouteCall(v) ==
    /\ http.stage = "flow"
    /\ Invoke(RouteInput, v)

\* The flow has returned or thrown: the handler completes its answer.
RouteRespond ==
    /\ http.stage = "flow"
    /\ pc \in {"returned", "raised"}
    /\ http' = [http EXCEPT !.stage = "responded",
                            !.status = IF http.route = "stream" THEN 200
                                       ELSE appRouteStatus(pc, http.streaming)]
    /\ UNCHANGED <<extractVars, statusVars, displayVars, listVars, calls, page>>

\* The answer is sent; the handler keeps nothing.
RouteDone ==
    /\ http.stage = "responded"
    /\ pc = "idle"
    /\ http' = NoHttp
    /\ UNCHANGED <<extractVars, statusVars, displayVars, listVars, calls, page>>

---------------------------------------------------------------------------
(* The page (app/page.tsx) with its image inputs (ImageUpload) and its
   results panel (ExtractionResults).  A File is kept by its size in bytes;
   the page calls the flow through streamFlow and appRoute, reads the
   chunks as they come and then the output. *)

NoFile == -1

NULL == <<"<null>">>

\* The size of a file of the user: small, exactly 10 MiB, one byte more.
UploadFiles == {8, 10 * 1024 * 1024, 10 * 1024 * 1024 + 1}

MUST_BE_LESS_THAN_10MB ==
    <<"I", "m", "a", "g", "e", " ", "s", "i", "z", "e", " ", "m", "u", "s",
      "t", " ", "b", "e", " ", "l", "e", "s", "s", " ", "t", "h", "a", "n",
      " ", "1", "0", "M", "B">>

FAILED_TO_LOAD ==
    <<"F", "a", "i", "l", "e", "d", " ", "t", "o", " ", "l", "o", "a", "d",
      " ", "i", "m", "a", "g", "e", " ", "f", "r", "o", "m", " ", "U", "R", "L">>

FAILED_TO_EXTRACT ==
    <<"F", "a", "i", "l", "e", "d", " ", "t", "o", " ", "e", "x", "t", "r",
      "a", "c", "t", " ", "t", "e", "x", "t">>

\* useState({}) and setMetadata({}): an object without keys.
EmptyMetadata == [model |-> <<>>, processingTime |-> 0, imageSize |-> 0, confidence |-> <<>>]

\* The state of Home and of ImageUpload after mounting; running, received,
\* inFlight and the request fields are the position of handleExtract, the
\* chunks it has read, the invocations not yet through their finally, and
\* the values its closure holds.
PageIdle ==
    [selectedImage |-> NoFile, selectedModel |-> <<>>, isExtracting |-> FALSE,
     extractedText |-> <<>>, confidence |-> <<>>, metadata |-> EmptyMetadata,
     streamingText |-> <<>>, error |-> NULL, uploadError |-> NULL,
     running |-> FALSE, received |-> 0, inFlight |-> 0, outcome |-> "none",
     requestImage |-> NoFile, requestModel |-> <<>>]

\* fileToBase64 of lib/utils: the base64 digits of the bytes of the file.
fileToBase64(file) == (file * 8 + 5) \div 6

\* maxSize of useDropzone and the test of handleUrlSubmit.
tooLarge(file) == file > 10 * 1024 * 1024

\* A button that is never disabled.
buttonAlwaysEnabled(p) == p.selectedImage = NoFile

\* disabled={isExtracting || !selectedImage || !selectedModel}; the button
\* is rendered only while an image is selected.
buttonDisabled(p) ==
    p.isExtracting \/ p.selectedImage = NoFile \/ ~Truthy(p.selectedModel)

\* const displayText = streamingText || extractedText
displayText(p) == IF Truthy(p.streamingText) THEN p.streamingText ELSE p.extractedText

pageUnchanged == UNCHANGED <<extractVars, statusVars, displayVars, listVars, calls, http>>

\* onDrop of the dropzone, for a dropped file and for one picked in the
\* file dialog; the dropzone is there while no image is selected.
OnDrop(file) ==
    /\ page.selectedImage = NoFile
    /\ page' = IF tooLarge(file)
               THEN [page EXCEPT !.uploadError = MUST_BE_LESS_THAN_10MB]
               ELSE [page EXCEPT !.uploadError = NULL, !.selectedImage = file]
    /\ pageUnchanged

\* handleUrlSubmit: the fetch fails, or the file is too large, or it is
\* selected.
HandleUrlSubmit(file, fetched) ==
    /\ page' = IF ~fetched THEN [page EXCEPT !.uploadError = FAILED_TO_LOAD]
               ELSE IF tooLarge(file)
               THEN [page EXCEPT !.uploadError = MUST_BE_LESS_THAN_10MB]
               ELSE [page EXCEPT !.uploadError = NULL, !.selectedImage = file]
    /\ pageUnchanged

\* handlePaste: an image on the clipboard is selected.
HandlePaste(file) ==
    /\ page' = [page EXCEPT !.selectedImage = file]
    /\ pageUnchanged

\* The X button: onImageSelect(null).
ClearImage ==
    /\ page.selectedImage # NoFile
    /\ page' = [page EXCEPT !.selectedImage = NoFile]
    /\ pageUnchanged

\* ModelSelector: onModelSelect(modelId); it is rendered while an image is
\* selected.
SelectModel(model) ==
    /\ page.selectedImage # NoFile
    /\ page.selectedModel # model
    /\ page' = [page EXCEPT !.selectedModel = model]
    /\ pageUnchanged

\* A click on the button: handleExtract up to its first await.
HandleExtract ==
    /\ ~buttonDisabled(page)
    /\ page.selectedImage # NoFile
    /\ page.inFlight < MaxInFlight
    /\ page' = [page EXCEPT !.isExtracting = TRUE, !.error = NULL,
                            !.extractedText = <<>>, !.streamingText = <<>>,
                            !.confidence = <<>>, !.metadata = EmptyMetadata,
                            !.running = TRUE, !.received = 0,
                            !.inFlight = @ + 1, !.outcome = "none",
                            !.requestImage = page.selectedImage,
                            !.requestModel = page.selectedModel]
    /\ pageUnchanged

\* The input of streamFlow.
PageInput ==
    [imageBase64 |-> fileToBase64(page.requestImage), model |-> page.requestModel,
     outputFormat |-> "text"]

\* The request reaches the endpoint and the flow is called.
PageCall(v) ==
    /\ page.running
    /\ Invoke(PageInput, v)

\* for await (const chunk of stream): the next chunk is appended.
PageChunk ==
    /\ page.running
    /\ page.received < Len(chunks)
    /\ page' = [page EXCEPT !.streamingText = @ \o chunks[page.received + 1],
                            !.received = @ + 1]
    /\ pageUnchanged

\* The stream has ended and output resolves: the result is taken over and
\* the finally block runs; the flow's call is over.
PageOutput ==
    /\ page.running
    /\ pc = "returned"
    /\ page.received = Len(chunks)
    /\ page' = [page EXCEPT !.extractedText = result.extractedText,
                            !.confidence = IF Truthy(result.metadata.confidence)
                                           THEN result.metadata.confidence ELSE HIGH,
                            !.metadata = result.metadata,
                            !.isExtracting = FALSE, !.running = FALSE,
                            !.inFlight = @ - 1, !.outcome = "resolved"]
    /\ Forgotten
    /\ UNCHANGED <<now, statusVars, displayVars, listVars, calls, http>>

\* The conversion or the request fails, or the flow has thrown and the
\* stream or the output rejects: the catch block (with the error's message,
\* here the default one) and the finally block run.
PageReject ==
    /\ page.running
    /\ pc \in {"idle", "raised"}
    /\ page' = [page EXCEPT !.error = FAILED_TO_EXTRACT,
                            !.isExtracting = FALSE, !.running = FALSE,
                            !.inFlight = @ - 1, !.outcome = "rejected"]
    /\ Forgotten
    /\ UNCHANGED <<now, statusVars, displayVars, listVars, calls, http>>

\* The answers of the inference server to the generation request.
PageBehaviours ==
    {[kind |-> k, text |-> <<>>] : k \in {"refused", "noText"}}
    \cup {[kind |-> "text", text |-> t] : t \in {<<>>, <<"a">>}}

AppIdle ==
    /\ calls = [c \in CallIds |-> NoCall]
    /\ http = NoHttp
    /\ page = PageIdle

CatalogIdle ==
    /\ dpc = "idle"
    /\ displayId = <<>>
    /\ displayInfo = NoDisplayInfo
    /\ lpc = "idle"
    /\ listResult = NoListResult

StatusIdle ==
    /\ spc = "idle"
    /\ tagsResponse = NoResponse
    /\ listRequests = 0
    /\ status = NoStatus
    /\ checksDone = 0

ExtractIdle ==
    /\ pc = "idle"
    /\ variant = "genkit"
    /\ input = [imageBase64 |-> 0, model |-> GEMMA3_4B, outputFormat |-> "text"]
    /\ startTime = 0
    /\ now = 0
    /\ chunks = <<>>
    /\ requests = <<>>
    /\ served = NotServed
    /\ extractedText = <<>>
    /\ processingTime = 0
    /\ result = NoResult

Init == ExtractIdle /\ StatusIdle /\ CatalogIdle /\ AppIdle

Next ==
    \/ \E inp \in Inputs, v \in Variants : Invoke(inp, v)
    \/ Tick
    \/ \E behaviour \in ServerBehaviours : Settle(behaviour)
    \/ Finish
    \/ Return

Spec == Init /\ [][Next]_vars

StatusNext ==
    \/ CheckStart
    \/ \E response \in TagsResponses : CheckSettle(response)
    \/ CheckReturn

StatusSpec == Init /\ [][StatusNext]_vars

DisplayNext ==
    \/ \E id \in ModelIds : Display(id)
    \/ DisplayReturn

DisplaySpec == Init /\ [][DisplayNext]_vars

ListNext ==
    \/ ListStart
    \/ \E response \in ListedResponses : CheckSettle(response)
    \/ ListFinish
    \/ ListReturn

ListSpec == Init /\ [][ListNext]_vars

ConcurrentNext ==
    \/ \E c \in CallIds, inp \in ConcurrentInputs, v \in Variants : CallInvoke(c, inp, v)
    \/ \E c \in CallIds, behaviour \in ConcurrentBehaviours : CallSettle(c, behaviour)
    \/ \E c \in CallIds : CallFinish(c)
    \/ ClockTick

ConcurrentSpec == Init /\ [][ConcurrentNext]_vars

RouteNext ==
    \/ \E route \in Routes, req \in RouteRequests : RouteReceive(route, req)
    \/ \E response \in RouteResponses : RouteCheck(response)
    \/ \E v \in Variants : RouteCall(v)
    \/ \E behaviour \in RouteBehaviours : Settle(behaviour)
    \/ Finish
    \/ RouteRespond
    \/ (http.stage = "responded" /\ Return)
    \/ RouteDone

RouteSpec == Init /\ [][RouteNext]_vars

\* The flow's steps once the page has called it.
PageFlowStep ==
    \/ \E behaviour \in PageBehaviours : Settle(behaviour)
    \/ Finish

PageNext ==
    \/ \E file \in UploadFiles : OnDrop(file)
    \/ \E file \in UploadFiles, fetched \in BOOLEAN : HandleUrlSubmit(file, fetched)
    \/ \E file \in UploadFiles : HandlePaste(file)
    \/ ClearImage
    \/ \E model \in RequestModels : SelectModel(model)
    \/ HandleExtract
    \/ \E v \in Variants : PageCall(v)
    \/ PageFlowStep
    \/ PageChunk
    \/ PageOutput
    \/ PageReject

\* What the scheduling guarantees once handleExtract runs: the request is
\* sent, the flow's call settles (it resolves or rejects) and continues,
\* and the page's continuations run.
PageFairness ==
    /\ WF_vars(\E v \in Variants : PageCall(v))
    /\ WF_vars(PageFlowStep)
    /\ WF_vars(PageChunk)
    /\ WF_vars(PageOutput)
    /\ WF_vars(PageReject)

PageSpec == Init /\ [][PageNext]_vars /\ PageFairness

---------------------------------------------------------------------------
(* Properties of the extraction flow, checked under Spec. *)

DecodedSize == Base64DecodedLength(input.imageBase64)

\* The call ended in the catch block.
Failed ==
    /\ pc = "returned"
    /\ \/ DecodedSize > 10485760
       \/ served.kind \in {"refused", "notFound", "serverError", "silent"}

\* The call got text from the server and returned.
Succeeded == pc = "returned" /\ served.kind = "text"

\* C1: a request whose decoded image is larger than 10 MiB (10485760 bytes)
\* ends in the size-limit failure and no generation request is issued in
\* that call; a request whose decoded image is at most 10 MiB passes
\* validation and its generation request is issued.
SizeBoundary ==
    pc # "idle" =>
        IF DecodedSize > 10485760
        THEN /\ pc = "returned"
             /\ requests = <<>>
             /\ result.extractedText = <<>>
             /\ result.metadata.confidence = ERROR_PREFIX \o IMAGE_TOO_LARGE
        ELSE /\ Len(requests) = 1
             /\ requests[1].model = input.model
             /\ requests[1].images = <<input.imageBase64>>

\* An image of 10 MiB + 1 byte was rejected without a request.
SizeBoundaryWitness ==
    /\ pc = "returned"
    /\ DecodedSize = 10485761
    /\ requests = <<>>
    /\ result.metadata.confidence = ERROR_PREFIX \o IMAGE_TOO_LARGE

\* C2: whenever the call ends in Failed, the result's extractedText is the
\* empty string and its confidence field carries a non-empty error
\* description after 'Error: '; nothing the listener received is in the text.
FailureShape ==
    Failed =>
        /\ result.extractedText = <<>>
        /\ Len(result.metadata.confidence) > Len(ERROR_PREFIX)
        /\ SubSeq(result.metadata.confidence, 1, Len(ERROR_PREFIX)) = ERROR_PREFIX

\* A call failed after its listener had received a chunk.
FailureShapeWitness ==
    /\ Failed
    /\ served.kind = "refused"
    /\ chunks = <<STARTING>>
    /\ result.extractedText = <<>>

\* C3: the call never raises: whatever the server does, it returns a
\* result whose extractedText is a string.
NeverRaises ==
    /\ pc # "raised"
    /\ pc = "returned" => IsString(result.extractedText)

\* C4: when validation passes and the server returns text T, the result has
\* the format transform of T (T itself for 'text') as extractedText, the
\* request's model, the decoded byte length of the image, confidence 'High'
\* and a processingTime >= 0.
SuccessResult ==
    Succeeded =>
        /\ result.extractedText = formatOutput(served.text, input.outputFormat)
        /\ input.outputFormat = "text" => result.extractedText = served.text
        /\ result.metadata.model = input.model
        /\ result.metadata.imageSize = DecodedSize
        /\ result.metadata.confidence = <<"H", "i", "g", "h">>
        /\ result.metadata.processingTime >= 0

\* A call returned text for an image that is not empty.
SuccessResultWitness ==
    /\ Succeeded
    /\ served.text # <<>>
    /\ result.metadata.imageSize > 0
    /\ result.metadata.model = LLAVA_7B

\* C5: for server text T, 'text' yields exactly T, and 'markdown' yields
\* the 18 characters '# Extracted Text', line break, line break, then T.
TextAndMarkdown ==
    Succeeded =>
        /\ input.outputFormat = "text" => result.extractedText = served.text
        /\ input.outputFormat = "markdown" =>
              /\ Len(result.extractedText) = 18 + Len(served.text)
              /\ SubSeq(result.extractedText, 1, 16) =
                    <<"#", " ", "E", "x", "t", "r", "a", "c", "t", "e", "d",
                      " ", "T", "e", "x", "t">>
              /\ result.extractedText[17] = "\n"
              /\ result.extractedText[18] = "\n"
              /\ SubSeq(result.extractedText, 19, Len(result.extractedText)) = served.text

\* A markdown result of a text that itself begins with white space.
TextAndMarkdownWitness ==
    /\ Succeeded
    /\ input.outputFormat = "markdown"
    /\ Len(served.text) = MaxTextLen
    /\ served.text[1] = "\n"

\* The lines of T by position: a line starts at 1 and after each line break
\* and runs to the next line break or the end.
LineStarts(T) == {1} \cup {i + 1 : i \in {j \in 1..Len(T) : T[j] = "\n"}}

LineAt(T, p) ==
    LET ends == {i \in p..Len(T) : T[i] = "\n"} \cup {Len(T) + 1}
        e == CHOOSE i \in ends : \A j \in ends : i <= j
    IN SubSeq(T, p, e - 1)

HasInk(line) == \E i \in 1..Len(line) : ~IsSpace(line[i])

Stripped(line) ==
    LET ink == {i \in 1..Len(line) : ~IsSpace(line[i])}
        first == CHOOSE i \in ink : \A j \in ink : i <= j
        last == CHOOSE i \in ink : \A j \in ink : j <= i
    IN SubSeq(line, first, last)

NthOf(S, k) == CHOOSE p \in S : Cardinality({q \in S : q < p}) = k - 1

\* The lines of T that hold a character that is not white space, in order.
InkLines(T) ==
    LET starts == {p \in LineStarts(T) : HasInk(LineAt(T, p))} IN
    [k \in 1..Cardinality(starts) |-> LineAt(T, NthOf(starts, k))]

\* The same lines, each without its leading and trailing white space.
StrippedInkLines(T) ==
    LET lines == InkLines(T) IN [k \in DOMAIN lines |-> Stripped(lines[k])]

\* The tokens of T: each starts at a character that is not white space and
\* follows white space or the start.
TokenCount(T) ==
    Cardinality({i \in 1..Len(T) : ~IsSpace(T[i]) /\ (i = 1 \/ IsSpace(T[i - 1]))})

\* C6, as stated: 'json' yields the pretty-printed object of T, of the
\* non-empty lines of T each with leading and trailing white space removed,
\* and of the number of white-space-delimited tokens of T.
JsonLinesTrimmed ==
    (Succeeded /\ input.outputFormat = "json") =>
        result.extractedText =
            JSONStringify([text |-> served.text,
                           lines |-> StrippedInkLines(served.text),
                           wordCount |-> TokenCount(served.text)])

\* C6, amended: 'json' yields the pretty-printed object of T, of the lines
\* of T that hold a character other than white space, each as it stands in
\* T (not trimmed), in order, and of the number of white-space-delimited
\* tokens of T (0 for an empty or all-white-space T).
JsonLinesKept ==
    (Succeeded /\ input.outputFormat = "json") =>
        /\ result.extractedText =
              JSONStringify([text |-> served.text,
                             lines |-> InkLines(served.text),
                             wordCount |-> TokenCount(served.text)])
        /\ (\A i \in 1..Len(served.text) : IsSpace(served.text[i])) =>
              result.extractedText =
                  JSONStringify([text |-> served.text, lines |-> <<>>, wordCount |-> 0])

\* A json result of a text of two tokens on lines with white space around.
JsonLinesKeptWitness ==
    /\ Succeeded
    /\ input.outputFormat = "json"
    /\ served.text = <<" ", "a", "\n">> \/ served.text = <<"a", "\n", "a">>
    /\ result.extractedText = JSONStringify(jsonPayload(served.text))

---------------------------------------------------------------------------
(* Properties of the status check, checked under StatusSpec. *)

\* The check returned after the list request failed.
ListFailed ==
    /\ spc = "returned"
    /\ tagsResponse.kind \in {"refused", "timeout", "non2xx", "badJson"}

\* The check returned after a 2xx answer whose entries all carry a name.
ListSucceeded ==
    /\ spc = "returned"
    /\ tagsResponse.kind = "ok"
    /\ \A k \in DOMAIN tagsResponse.models : IsString(tagsResponse.models[k].name)

RangeOf(seq) == {seq[k] : k \in DOMAIN seq}

NamesOf(entries) == [k \in DOMAIN entries |-> entries[k].name]

\* C7: whenever listing the installed models fails (no connection, the 5 s
\* bound exceeded, a non-2xx answer, an unparsable body) the check returns
\* isRunning false, no models and a non-empty error message; so does every
\* repeated check, whatever the earlier ones returned.
FailureStatus ==
    /\ spc \in {"idle", "fetching", "returned"}
    /\ ListFailed =>
          /\ status.isRunning = FALSE
          /\ status.models = <<>>
          /\ IsString(status.error)
          /\ status.error # <<>>

\* A second check in a row failed on the time bound.
FailureStatusWitness ==
    /\ ListFailed
    /\ checksDone = 2
    /\ tagsResponse.kind = "timeout"
    /\ status.isRunning = FALSE

\* C8: when the server answers the list request successfully, the check
\* returns isRunning true, no error, and as models exactly the identifiers
\* of the entries that classify as vision-capable, in the server's order.
VisionSubsequence ==
    ListSucceeded =>
        LET ms == tagsResponse.models
            kept == {i \in DOMAIN ms : isVisionModel(ms[i])}
        IN /\ status.isRunning = TRUE
           /\ status.error = Undefined
           /\ Len(status.models) = Cardinality(kept)
           /\ \A k \in 1..Cardinality(kept) : status.models[k] = ms[NthOf(kept, k)].name

\* Two vision models came back in the server's order, which is not the
\* alphabetical one.
VisionSubsequenceWitness ==
    /\ ListSucceeded
    /\ NamesOf(tagsResponse.models) = <<LLAVA_7B, GEMMA3_4B>>
    /\ status.models = <<LLAVA_7B, GEMMA3_4B>>

StartsWith(s, prefix) == Len(prefix) <= Len(s) /\ SubSeq(s, 1, Len(prefix)) = prefix

ContainsFrom(s, sub, from) ==
    \E i \in from..(Len(s) - Len(sub) + 1) : SubSeq(s, i, i + Len(sub) - 1) = sub

\* The name rules in words: starts with llava, bakllava, gemma3, minicpm-v
\* or moondream; starts with qwen and has vl further on; contains vision
\* or multimodal (which covers gemma...vision and llama...vision).
NameRuleMatches(name) ==
    LET n == toLowerCase(name) IN
    \/ StartsWith(n, <<"l", "l", "a", "v", "a">>)
    \/ StartsWith(n, <<"b", "a", "k", "l", "l", "a", "v", "a">>)
    \/ StartsWith(n, <<"g", "e", "m", "m", "a", "3">>)
    \/ StartsWith(n, <<"m", "i", "n", "i", "c", "p", "m", "-", "v">>)
    \/ StartsWith(n, <<"m", "o", "o", "n", "d", "r", "e", "a", "m">>)
    \/ StartsWith(n, <<"q", "w", "e", "n">>) /\ ContainsFrom(n, <<"v", "l">>, 5)
    \/ ContainsFrom(n, <<"v", "i", "s", "i", "o", "n">>, 1)
    \/ ContainsFrom(n, <<"m", "u", "l", "t", "i", "m", "o", "d", "a", "l">>, 1)

FamiliesSayVision(entry) ==
    /\ entry.hasFamilies
    /\ \E k \in DOMAIN entry.families :
          toLowerCase(entry.families[k]) \in
              {<<"c", "l", "i", "p">>, <<"v", "i", "s", "i", "o", "n">>}

\* C9, as stated: the models of a successful check are the entries whose
\* identifier matches a name rule, whatever else the server reports.
ClassifiedByNameAlone ==
    ListSucceeded =>
        status.models =
            NamesOf(SelectSeq(tagsResponse.models, LAMBDA m : NameRuleMatches(m.name)))

\* C9, amended: a model is classified vision-capable if and only if a name
\* rule matches its identifier or the families the server reports for it
\* contain 'clip' or 'vision' (compared without case); llava:7b, gemma3:4b
\* and gemma3:27b classify true, and mistral:7b false unless its families
\* say otherwise.
ClassifiedByNameOrFamilies ==
    /\ ListSucceeded =>
          status.models =
              NamesOf(SelectSeq(tagsResponse.models,
                                LAMBDA m : NameRuleMatches(m.name) \/ FamiliesSayVision(m)))
    /\ \A n \in {LLAVA_7B, GEMMA3_4B, GEMMA3_27B} : isVisionModel(Entry(n, FALSE, <<>>))
    /\ ~isVisionModel(Entry(MISTRAL_7B, FALSE, <<>>))
    /\ ~isVisionModel(Entry(MISTRAL_7B, TRUE, << <<"l", "l", "a", "m", "a">> >>))

\* Of two mistral:7b entries, the one whose families name CLIP is kept.
ClassifiedByNameOrFamiliesWitness ==
    /\ ListSucceeded
    /\ tagsResponse.models =
          << Entry(MISTRAL_7B, FALSE, <<>>),
             Entry(MISTRAL_7B, TRUE, << <<"C", "L", "I", "P">> >>) >>
    /\ status.models = <<MISTRAL_7B>>

FirstColon(name) ==
    LET colons == {i \in 1..Len(name) : name[i] = ":"} IN
    IF colons = {} THEN Len(name) + 1 ELSE CHOOSE i \in colons : \A j \in colons : i <= j

FamilyOf(name) == SubSeq(name, 1, FirstColon(name) - 1)

VariantOf(name) == SubSeq(name, FirstColon(name) + 1, Len(name))

\* C10, as stated: entries with the same family (the text before ':',
\* lowercased) receive the same classification whatever their variants.
ClassifiedByFamilyAlone ==
    ListSucceeded =>
        \A i, j \in DOMAIN tagsResponse.models :
            LET a == tagsResponse.models[i]
                b == tagsResponse.models[j]
            IN (/\ ~a.hasFamilies
                /\ ~b.hasFamilies
                /\ FamilyOf(toLowerCase(a.name)) = FamilyOf(toLowerCase(b.name)))
               => (a.name \in RangeOf(status.models) <=> b.name \in RangeOf(status.models))

\* C10, amended: the rules are applied to the whole lowercased identifier,
\* variant included: an identifier is vision-capable whenever its family
\* portion matches a rule, and also whenever its variant contains 'vision'
\* or 'multimodal', whatever its family.
ClassifiedByWholeIdentifier ==
    ListSucceeded =>
        \A i \in DOMAIN tagsResponse.models :
            LET name == tagsResponse.models[i].name
                variant_ == toLowerCase(VariantOf(name))
            IN (\/ NameRuleMatches(FamilyOf(name))
                \/ ContainsFrom(variant_, <<"v", "i", "s", "i", "o", "n">>, 1)
                \/ ContainsFrom(variant_, <<"m", "u", "l", "t", "i", "m", "o", "d", "a", "l">>, 1))
               => name \in RangeOf(status.models)

\* mistral:vision is kept and mistral:7b is not.
ClassifiedByWholeIdentifierWitness ==
    /\ ListSucceeded
    /\ NamesOf(tagsResponse.models) = <<MISTRAL_7B, MISTRAL_VISION>>
    /\ ~tagsResponse.models[1].hasFamilies
    /\ status.models = <<MISTRAL_VISION>>

---------------------------------------------------------------------------
(* Properties of the model catalog, checked under DisplaySpec. *)

\* The ':'-separated segments of an identifier, by position: a segment
\* starts at 1 and after each colon and runs to the next colon or the end.
SegmentStarts(id) == {1} \cup {i + 1 : i \in {j \in 1..Len(id) : id[j] = ":"}}

SegmentAt(id, p) ==
    LET ends == {i \in p..Len(id) : id[i] = ":"} \cup {Len(id) + 1}
        e == CHOOSE i \in ends : \A j \in ends : i <= j
    IN SubSeq(id, p, e - 1)

Segments(id) ==
    [k \in 1..Cardinality(SegmentStarts(id)) |-> SegmentAt(id, NthOf(SegmentStarts(id), k))]

\* The variant segment: the one after the family, empty when there is none.
VariantSegment(id) == IF Len(Segments(id)) >= 2 THEN Segments(id)[2] ELSE <<>>

FirstUpper(segment) ==
    IF segment = <<>> THEN <<>>
    ELSE <<toUpperChar(segment[1])>> \o SubSeq(segment, 2, Len(segment))

RECURSIVE SpaceJoined(_)
SpaceJoined(parts) ==
    IF Len(parts) = 0 THEN <<>>
    ELSE IF Len(parts) = 1 THEN parts[1]
    ELSE parts[1] \o <<" ">> \o SpaceJoined(Tail(parts))

\* The keys of the known-family table.
TableKeys == DOMAIN KNOWN_VISION_MODELS

\* C11: if the whole identifier is a key of the known-family table, that
\* entry is returned unchanged; otherwise, if the family segment is a key,
\* the result is that entry's description and its name followed by a space
\* and the upper-cased variant segment (the name alone when there is no
\* variant); otherwise the name is each segment with its first character
\* upper-cased, joined by spaces, and the description is the generic one.
DisplayPrecedence ==
    dpc = "returned" =>
        LET family == Segments(displayId)[1]
            variant_ == VariantSegment(displayId)
        IN IF displayId \in TableKeys
           THEN displayInfo = KNOWN_VISION_MODELS[displayId]
           ELSE IF family \in TableKeys
           THEN /\ displayInfo.description = KNOWN_VISION_MODELS[family].description
                /\ displayInfo.name =
                      IF variant_ = <<>> THEN KNOWN_VISION_MODELS[family].name
                      ELSE KNOWN_VISION_MODELS[family].name \o <<" ">>
                           \o toUpperCase(variant_)
           ELSE /\ displayInfo.name =
                      SpaceJoined([k \in DOMAIN Segments(displayId) |->
                                      FirstUpper(Segments(displayId)[k])])
                /\ displayInfo.description =
                      <<"V", "i", "s", "i", "o", "n", "-", "c", "a", "p", "a",
                        "b", "l", "e", " ", "m", "o", "d", "e", "l">>

\* The same, for the identifiers whose family Object.prototype does not
\* answer to.
DisplayPrecedenceOfOwnKeys ==
    (dpc = "returned" /\ Segments(displayId)[1] \notin DOMAIN ObjectPrototype)
        => DisplayPrecedence

\* C12: for every identifier the call returns a record whose name and
\* description are non-empty strings.
DisplayTotal ==
    dpc = "returned" =>
        /\ IsString(displayInfo.name)
        /\ displayInfo.name # <<>>
        /\ IsString(displayInfo.description)
        /\ displayInfo.description # <<>>

---------------------------------------------------------------------------
(* Properties of the model list, checked under ListSpec. *)

\* getAvailableModels returned its list.
ListReturned == lpc = "returned"

IdsOf(entries) == [k \in DOMAIN entries |-> entries[k].id]

CountIn(seq, x) == Cardinality({k \in DOMAIN seq : seq[k] = x})

CodeUnitOrder ==
    <<" ", "-", ".">> \o Digits \o <<":">> \o UpperChars \o <<"_">> \o LowerChars

CodeUnits(name) == [i \in DOMAIN name |-> IndexOf(name[i], CodeUnitOrder)]

\* The ranks of the characters without their case, and their case.
CaselessRanks(name) == [i \in DOMAIN name |-> IndexOf(toLowerChar(name[i]), CollationOrder)]

CaseMarks(name) == [i \in DOMAIN name |-> IF name[i] \in DOMAIN LowerOf THEN 1 ELSE 0]

\* x comes before y: at the first position where they differ x is lower, or
\* x is a proper prefix of y.
KeyBefore(x, y) ==
    LET both == {i \in DOMAIN x \cap DOMAIN y : x[i] # y[i]} IN
    IF both = {} THEN Len(x) < Len(y)
    ELSE LET d == CHOOSE i \in both : \A j \in both : i <= j IN x[d] < y[d]

CodeUnitBefore(a, b) == KeyBefore(CodeUnits(a), CodeUnits(b))

\* Alphabetical order: by the characters without case; case decides only
\* between names that are otherwise equal, lower case first.
CollatesBefore(a, b) ==
    \/ KeyBefore(CaselessRanks(a), CaselessRanks(b))
    \/ /\ CaselessRanks(a) = CaselessRanks(b)
       /\ KeyBefore(CaseMarks(a), CaseMarks(b))

\* Recommended entries come first and, within each group, no entry comes
\* after one that its name is before.
GroupedAndOrdered(Before(_, _)) ==
    \A i, j \in DOMAIN listResult.models :
        i < j =>
            LET a == listResult.models[i]
                b == listResult.models[j]
            IN /\ b.recommended => a.recommended
               /\ a.recommended = b.recommended => ~Before(b.name, a.name)

\* Entries with equal flag and equal name keep the order of the status check.
TiesKeepOrder ==
    \A k \in DOMAIN listResult.models :
        LET e == listResult.models[k]
            alike == {listResult.models[i].id :
                        i \in {j \in DOMAIN listResult.models :
                                 /\ listResult.models[j].name = e.name
                                 /\ listResult.models[j].recommended = e.recommended}}
        IN SelectSeq(IdsOf(listResult.models), LAMBDA id : id \in alike)
              = SelectSeq(status.models, LAMBDA id : id \in alike)

\* gemma3:4b precedes llava:7b whenever both are listed.
GemmaBeforeLlava ==
    \A i, j \in DOMAIN listResult.models :
        (listResult.models[i].id = GEMMA3_4B /\ listResult.models[j].id = LLAVA_7B)
            => i < j

EntriesMatchStatus ==
    /\ Len(listResult.models) = Len(status.models)
    /\ \A k \in DOMAIN status.models :
          CountIn(IdsOf(listResult.models), status.models[k])
              = CountIn(status.models, status.models[k])
    /\ \A k \in DOMAIN listResult.models :
          LET e == listResult.models[k] IN
          /\ e.available = TRUE
          /\ e.name = getModelDisplayInfo(e.id).name
          /\ e.description = getModelDisplayInfo(e.id).description
          /\ e.size = IF VariantSegment(e.id) = <<>>
                      THEN <<"U", "n", "k", "n", "o", "w", "n">>
                      ELSE VariantSegment(e.id)

\* C15: the list call returns exactly one entry per model reported by the
\* status check (the ids are a permutation of status.models), each with
\* available = true, name and description of displayInfo(id), and as size
\* the variant segment of the id, or 'Unknown' when it has none or an empty
\* one.
OneEntryPerModel ==
    /\ lpc # "raised"
    /\ ListReturned => EntriesMatchStatus

\* The same, for the calls that return.
OneEntryPerModelWhenReturned == ListReturned => EntriesMatchStatus

\* C16: with an unreachable server the list call does not raise and returns
\* an empty list with the status of that same check, which has isRunning
\* false and a non-empty error; with a reachable server without vision
\* models it returns an empty list with isRunning true and no error.
EmptyListDistinguished ==
    /\ (lpc \in {"returned", "raised"} /\ ListFailed) =>
          /\ lpc = "returned"
          /\ listResult.models = <<>>
          /\ listResult.ollamaStatus = status
          /\ listResult.ollamaStatus.isRunning = FALSE
          /\ IsString(listResult.ollamaStatus.error)
          /\ listResult.ollamaStatus.error # <<>>
    /\ (/\ lpc \in {"returned", "raised"}
        /\ ListSucceeded
        /\ \A k \in DOMAIN tagsResponse.models : ~isVisionModel(tagsResponse.models[k])) =>
          /\ lpc = "returned"
          /\ listResult.models = <<>>
          /\ listResult.ollamaStatus = status
          /\ listResult.ollamaStatus.isRunning = TRUE
          /\ listResult.ollamaStatus.error = Undefined

\* The list of a server that refused the connection.
EmptyListDistinguishedWitness ==
    /\ ListReturned
    /\ tagsResponse.kind = "refused"
    /\ listResult.models = <<>>
    /\ listResult.ollamaStatus.isRunning = FALSE
    /\ listResult.ollamaStatus.error # <<>>

---------------------------------------------------------------------------
(* Properties of the progress notifications and of the elapsed time,
   checked under Spec. *)

\* The call passed validation.
PassedValidation == pc # "idle" /\ DecodedSize <= 10485760

\* The call returned from its try block.
ReturnedFromTry == pc = "returned" /\ served.kind \in {"text", "noText"}

INITIAL_NOTIFICATION ==
    <<"S", "t", "a", "r", "t", "i", "n", "g", " ", "t", "e", "x", "t", " ",
      "e", "x", "t", "r", "a", "c", "t", "i", "o", "n", ".", ".", ".",
      "\n">>

FINAL_PREFIX ==
    <<"\n", "E", "x", "t", "r", "a", "c", "t", "i", "o", "n", " ", "c",
      "o", "m", "p", "l", "e", "t", "e", "!">>

IsFinalNotification(c) == StartsWith(c, FINAL_PREFIX)

FinalNotifications == {k \in DOMAIN chunks : IsFinalNotification(chunks[k])}

\* C17: in every call that passes validation the listener has the initial
\* notification before the response of the generation request is received,
\* and it is the first chunk the listener receives in that call.
InitialNotificationFirst ==
    /\ PassedValidation =>
          /\ chunks # <<>>
          /\ chunks[1] = INITIAL_NOTIFICATION
          /\ CountIn(chunks, INITIAL_NOTIFICATION) = 1
    /\ (PassedValidation /\ served = NotServed) => chunks = <<INITIAL_NOTIFICATION>>
    /\ ~PassedValidation => chunks = <<>>

\* A call awaits the server's response, its listener notified.
InitialNotificationFirstWitness ==
    /\ pc = "awaiting"
    /\ served = NotServed
    /\ Len(requests) = 1
    /\ chunks = <<INITIAL_NOTIFICATION>>

\* The text chunks the server produced for the call: the request is made
\* with stream: false (ai.generate in the genkit form), so the text comes
\* in one piece.
ProducedChunks == IF served.kind = "text" /\ served.text # <<>> THEN <<served.text>> ELSE <<>>

\* C18: every text chunk the inference server produces for the call is
\* forwarded to the listener, each exactly once, in the order the chunks
\* arrived, before the final result is returned.
ChunksRelayed ==
    ReturnedFromTry =>
        SelectSeq(chunks, LAMBDA c : c # INITIAL_NOTIFICATION /\ ~IsFinalNotification(c))
            = ProducedChunks

\* C19: in every successful call exactly one final notification is sent to
\* the listener, after the output-format transform and before the result is
\* returned, and the elapsed time it states equals metadata.processingTime
\* of the returned result.
FinalNotification ==
    /\ pc \in {"idle", "awaiting", "formatting"} => FinalNotifications = {}
    /\ Failed => FinalNotifications = {}
    /\ ReturnedFromTry =>
          /\ FinalNotifications = {Len(chunks)}
          /\ chunks[Len(chunks)] =
                FINAL_PREFIX \o <<" ", "P", "r", "o", "c", "e", "s", "s", "i", "n", "g",
                                  " ", "t", "i", "m", "e", ":", " ">>
                \o NumToStr(result.metadata.processingTime) \o <<"m", "s">>
          /\ result.extractedText = formatOutput(extractedText, input.outputFormat)

\* A json call returned after a clock tick, its listener told the time.
FinalNotificationWitness ==
    /\ ReturnedFromTry
    /\ input.outputFormat = "json"
    /\ result.metadata.processingTime = 1
    /\ Len(chunks) = 2
    /\ IsFinalNotification(chunks[2])

\* C20, as stated: every result carries a processingTime >= 0 that runs
\* from the start of validation to the end of the call: after the
\* output-format transform on success, the point of failure on failure.
ElapsedToEnd ==
    pc = "returned" =>
        /\ result.metadata.processingTime >= 0
        /\ result.metadata.processingTime = now - startTime

\* C20, amended: every result carries a processingTime >= 0 that starts at
\* the start of validation; on failure it ends at the point of failure; on
\* success it ends when the response of the generation request is received,
\* before the output-format transform and the final notification, whose
\* duration it does not include.
ElapsedToResponse ==
    [][ /\ (pc = "idle" /\ pc' # "idle") => startTime' = now'
        /\ (pc = "awaiting" /\ pc' = "formatting") => processingTime' = now' - startTime'
        /\ pc = "formatting" => (processingTime' = processingTime /\ startTime' = startTime)
        /\ (pc = "formatting" /\ pc' = "returned") =>
              /\ result'.metadata.processingTime = processingTime
              /\ result'.metadata.processingTime >= 0
              /\ result'.metadata.processingTime <= now' - startTime'
        /\ (pc \in {"idle", "awaiting"} /\ pc' = "returned") =>
              /\ result'.metadata.processingTime = now' - startTime'
              /\ result'.metadata.processingTime >= 0 ]_vars

\* A successful result whose processingTime is less than the time the call
\* took: the clock ticked during the transform.
ElapsedToResponseWitness ==
    /\ ReturnedFromTry
    /\ startTime = 0
    /\ now = 1
    /\ result.metadata.processingTime = 0

---------------------------------------------------------------------------
(* C28: the confidence field tells a success from a failure. *)

Confidence == result.metadata.confidence

\* C28: in every result the flow returns, confidence is exactly 'High' when
\* the call returned from its try block and begins with 'Error: ' when it
\* returned from its catch block, one and only one of the two; every result
\* of the catch block has imageSize 0, also when the failure came after the
\* size of a non-empty image had been measured.
Discriminator ==
    pc = "returned" =>
        /\ Failed # ReturnedFromTry
        /\ (Confidence = HIGH) # StartsWith(Confidence, ERROR_PREFIX)
        /\ ReturnedFromTry => Confidence = HIGH
        /\ Failed => /\ StartsWith(Confidence, ERROR_PREFIX)
                     /\ result.metadata.imageSize = 0

\* A call with a non-empty image of allowed size failed at the server.
DiscriminatorWitness ==
    /\ Failed
    /\ served.kind = "serverError"
    /\ DecodedSize > 0
    /\ DecodedSize <= 10485760
    /\ result.metadata.imageSize = 0
    /\ StartsWith(Confidence, ERROR_PREFIX)

---------------------------------------------------------------------------
(* C27: what a 2xx answer of /api/tags means for isRunning. *)

\* The server answered GET /api/tags with a 2xx status.
Answered2xx == spc = "returned" /\ tagsResponse.kind \in {"ok", "badJson"}

\* C27: the check reports isRunning false only when the server cannot be
\* reached or answers with a non-2xx status; after a 2xx answer isRunning
\* is true whatever the list holds: no entries, no models field, entries
\* without a name or without details.
RunningOn2xx ==
    spc = "returned" =>
        (status.isRunning = FALSE <=> ~Answered2xx)

---------------------------------------------------------------------------
(* C25: the guidance of a model-not-found failure. *)

OLLAMA_PULL == <<"o", "l", "l", "a", "m", "a", " ", "p", "u", "l", "l", " ">>

\* C25: when the server is reachable and reports that the requested model
\* is absent, the failure the caller gets names the requested identifier
\* and contains the command 'ollama pull <identifier>'.
PullGuidance ==
    (pc = "returned" /\ served.kind = "notFound") =>
        /\ StartsWith(Confidence, ERROR_PREFIX)
        /\ ContainsFrom(Confidence, input.model, 1)
        /\ ContainsFrom(Confidence, OLLAMA_PULL \o input.model, 1)

---------------------------------------------------------------------------
(* The calls side by side: an extraction, a status check and a listing
   against a server that may answer, refuse or stay silent. *)

\* timeout: 120000 of the axios call; ai.generate is given no time bound.
hasTimeout(v) == v = "axios"

CallInputs ==
    [imageBase64 : {8, FirstRejectedDigits}, model : RequestModels, outputFormat : {"text"}]

\* The answers the server gives to the generation request.
CallBehaviours ==
    {[kind |-> k, text |-> <<>>] : k \in {"refused", "notFound", "serverError", "noText"}}
    \cup {[kind |-> "text", text |-> <<"a">>]}

\* The answers the server gives to GET /api/tags.
CallResponses == {r \in ListedResponses : Len(r.models) <= 1}

SILENT == [kind |-> "silent", text |-> <<>>]

\* The server has the generation request and sends nothing back.
GoSilent ==
    /\ pc = "awaiting"
    /\ served = NotServed
    /\ served' = SILENT
    /\ UNCHANGED <<pc, variant, input, startTime, now, chunks, requests,
                   extractedText, processingTime, result, statusVars, displayVars, listVars, appVars>>

\* The time bound of the call runs out: axios rejects and the catch
\* block returns.
GiveUp ==
    /\ pc = "awaiting"
    /\ served = SILENT
    /\ hasTimeout(variant)
    /\ result' = failureResult(variant, thrownBy(variant, served), input.model,
                               elapsedSince(startTime, now))
    /\ pc' = "returned"
    /\ UNCHANGED <<variant, input, startTime, now, chunks, requests, served,
                   extractedText, processingTime, statusVars, displayVars, listVars, appVars>>

\* The transport under ai.generate gives the connection up, which the flow
\* neither asks for nor can rely on.
TransportGivesUp ==
    /\ pc = "awaiting"
    /\ served = SILENT
    /\ ~hasTimeout(variant)
    /\ result' = failureResult(variant, thrownBy(variant, served), input.model,
                               elapsedSince(startTime, now))
    /\ pc' = "returned"
    /\ UNCHANGED <<variant, input, startTime, now, chunks, requests, served,
                   extractedText, processingTime, statusVars, displayVars, listVars, appVars>>

\* The server answers the generation request.
Answer == \E behaviour \in CallBehaviours : served = NotServed /\ Settle(behaviour)

\* The fetch of /api/tags settles: an answer, a refusal, or the abort of
\* AbortSignal.timeout(5000).
TagsSettle == \E response \in CallResponses : CheckSettle(response)

CallsNext ==
    \/ \E inp \in CallInputs, v \in Variants : Invoke(inp, v)
    \/ Answer
    \/ GoSilent
    \/ GiveUp
    \/ TransportGivesUp
    \/ Finish
    \/ Return
    \/ CheckStart
    \/ TagsSettle
    \/ (lpc = "idle" /\ CheckReturn)
    \/ ListStart
    \/ ListFinish
    \/ ListReturn

\* What the code's scheduling guarantees: a pending answer is delivered, a
\* timer that was set fires, and a continuation that can run does run.
CallsFairness ==
    /\ WF_vars(Answer)
    /\ WF_vars(GiveUp)
    /\ WF_vars(Finish)
    /\ WF_vars(TagsSettle)

CallsSpec == Init /\ [][CallsNext]_vars /\ CallsFairness

---------------------------------------------------------------------------
(* C21: no retries. *)

\* C21: one extraction issues at most one generation request, whatever its
\* outcome, and exactly one once it passed validation; one status check
\* issues exactly one list request; one listing runs exactly one check.
NoRetries ==
    /\ Len(requests) <= 1
    /\ pc \in {"awaiting", "formatting"} => Len(requests) = 1
    /\ pc \in {"returned", "raised"} =>
          Len(requests) = (IF DecodedSize > 10485760 THEN 0 ELSE 1)
    /\ spc \in {"fetching", "returned"} => listRequests = 1
    /\ lpc \in {"checking", "returned", "raised"} => listRequests = 1
    /\ spc = "idle" => listRequests = 0

\* An extraction ended on a missing model and a listing on the time bound
\* of its check, each after one request.
NoRetriesWitness ==
    /\ pc = "returned"
    /\ served.kind = "notFound"
    /\ Len(requests) = 1
    /\ lpc = "returned"
    /\ tagsResponse.kind = "timeout"
    /\ listRequests = 1
    /\ checksDone = 2

---------------------------------------------------------------------------
(* C22: bounded wait. *)

\* C22: every status check and every extraction eventually returns, also
\* when the server takes the request and never answers: each gives up on
\* its time bound and ends in a failure result.
BoundedWait ==
    /\ (spc = "fetching") ~> (spc = "returned")
    /\ (pc = "awaiting") ~> (pc \in {"returned", "raised"})
    /\ [](pc = "returned" /\ served = SILENT => Failed)

---------------------------------------------------------------------------
(* C23: concurrent extractions do not interfere. *)

TIME_LABEL ==
    <<" ", "P", "r", "o", "c", "e", "s", "s", "i", "n", "g", " ", "t", "i", "m", "e", ":", " ">>

SizeOfCall(call) == Base64DecodedLength(call.input.imageBase64)

\* The chunks a call running alone has sent by the position it is at.
ChunksAlone(call) ==
    IF call.pc = "idle" \/ SizeOfCall(call) > 10485760 THEN <<>>
    ELSE IF call.pc = "returned" /\ call.served.kind = "text"
    THEN <<INITIAL_NOTIFICATION,
           FINAL_PREFIX \o TIME_LABEL
               \o NumToStr(call.result.metadata.processingTime) \o <<"m", "s">>>>
    ELSE <<INITIAL_NOTIFICATION>>

\* C23: with several calls in flight, interleaved in any way, each call's
\* listener has received the chunks of that call and no others, each
\* call's request and result are made of its own input and its own server
\* response, and its processingTime is counted from its own start.
Isolation ==
    \A c \in CallIds :
        LET call == calls[c] IN
        /\ call.chunks = ChunksAlone(call)
        /\ call.pc \in {"awaiting", "formatting"} =>
              call.requests = <<[model |-> call.input.model,
                                 images |-> <<call.input.imageBase64>>]>>
        /\ call.pc = "formatting" =>
              /\ call.extractedText = call.served.text
              /\ call.processingTime \in 0..(now - call.startTime)
        /\ call.pc = "returned" =>
              /\ call.result.metadata.model = call.input.model
              /\ call.result.metadata.processingTime \in 0..(now - call.startTime)
              /\ IF call.served.kind = "text"
                 THEN /\ call.result.extractedText = call.served.text
                      /\ call.result.metadata.imageSize = SizeOfCall(call)
                      /\ call.result.metadata.confidence = HIGH
                 ELSE /\ call.result.extractedText = <<>>
                      /\ call.result.metadata.imageSize = 0
                      /\ StartsWith(call.result.metadata.confidence, ERROR_PREFIX)

\* Two calls that ran at once, with different inputs, starts and answers:
\* the later one got text and the earlier one was refused after it.
IsolationWitness ==
    /\ calls[1].pc = "returned"
    /\ calls[2].pc = "returned"
    /\ calls[1].input.model # calls[2].input.model
    /\ calls[1].startTime < calls[2].startTime
    /\ calls[1].served.kind = "refused"
    /\ calls[2].served.kind = "text"
    /\ calls[2].served.text # <<>>
    /\ Len(calls[2].chunks) = 2
    /\ calls[2].result.metadata.processingTime < calls[1].result.metadata.processingTime

---------------------------------------------------------------------------
(* C24: the HTTP status of a failed extraction request. *)

RouteResponded == http.stage = "responded"

\* The handler's own check found the inference server unreachable.
CheckUnreachable ==
    /\ RouteResponded
    /\ http.check.kind \in {"refused", "timeout", "non2xx"}

\* The handler's own check found the server without the requested model.
ModelUninstalled ==
    /\ RouteResponded
    /\ http.check.kind = "ok"
    /\ http.model \notin RangeOf(NamesOf(http.check.models))

\* The flow was called and reported an oversized image, an unreachable
\* server or an unknown model.
FlowReportedAvailability ==
    /\ RouteResponded
    /\ Failed
    /\ (DecodedSize > 10485760 \/ served.kind \in {"refused", "notFound"})

\* A failure of no foreseen kind: the server's list could not be read, the
\* generation failed at the server, or the flow threw.
UnexpectedFailure ==
    /\ RouteResponded
    /\ \/ http.check.kind = "badJson"
       \/ pc = "raised"
       \/ (Failed /\ served.kind = "serverError")

---------------------------------------------------------------------------
(* C26: what the results panel shows after an extraction. *)

\* C26: after handleExtract has completed successfully with a non-empty
\* extractedText, the text the results panel shows is that extractedText
\* and not the progress chunks gathered in streamingText.
ResultDisplayed ==
    (page.outcome = "resolved" /\ page.confidence = HIGH /\ Truthy(page.extractedText)) =>
        displayText(page) = page.extractedText

---------------------------------------------------------------------------
(* C29: the size limit of the image inputs. *)

\* C29: no file larger than 10 MiB (10485760 bytes) becomes the selected
\* image by any input path (drop, file dialog, URL, paste), nor is one
\* encoded and sent.
SizeLimitOnInput ==
    /\ page.selectedImage <= 10485760
    /\ page.requestImage <= 10485760

---------------------------------------------------------------------------
(* C30: the extraction state of the page. *)

\* handleExtract has cleared what the last extraction left.
Cleared ==
    /\ page.error = NULL
    /\ page.extractedText = <<>>
    /\ page.streamingText = <<>>
    /\ page.confidence = <<>>
    /\ page.metadata = EmptyMetadata

ExtractionState ==
    /\ page.isExtracting <=> page.running
    /\ (page.running /\ pc = "idle") => Cleared
    /\ pc # "idle" => page.isExtracting
    /\ page.isExtracting => buttonDisabled(page)
    /\ page.inFlight = (IF page.isExtracting THEN 1 ELSE 0)

\* C30: every handleExtract with an image selected sets isExtracting and
\* clears error, extractedText, streamingText, confidence and metadata
\* before the request is sent; it sets isExtracting back to false when the
\* stream and the output resolve and when they reject; while isExtracting
\* is true the button is disabled, so that at most one extraction is in
\* flight.
PageExtractionState ==
    /\ []ExtractionState
    /\ page.isExtracting ~> ~page.isExtracting

\* An extraction in flight: the request is out, the first chunk is read.
PageExtractionStateWitness ==
    /\ page.isExtracting
    /\ pc = "awaiting"
    /\ Len(requests) = 1
    /\ page.received = 1
    /\ page.streamingText = INITIAL_NOTIFICATION
    /\ page.inFlight = 1
    /\ buttonDisabled(page)

=============================================================================
